---- MODULE Spec2Model ----
(***************************************************************************)
(* Model of the stock advisor's analysis core:                             *)
(*   analysis/signals.py     generate_signals  (signal fusion)             *)
(*   analysis/indicators.py  compute_all       (indicator pipeline)        *)
(*                                                                         *)
(* Numbers.  A cell of a DataFrame is a record [k, v]: k = "num" with the  *)
(* integer v, k = "nan" (pandas' undefined value) or k = "inf" with the    *)
(* sign v.  Prices, volumes, RSI/ADX/MFI points are integers; Bollinger %B *)
(* is kept in hundredths (PctBScale).  A vote is kept in sixtieths         *)
(* (VoteScale), the least scale in which every vote the code can append    *)
(* (1, 0.5, 0.8, 0.3, k/2, k/3, k/4) is an integer; a returned score is    *)
(* kept in thousandths, the precision of round(score, 3).                  *)
(***************************************************************************)
EXTENDS Integers, Sequences, FiniteSets, TLC

VARIABLES df, votes, voters, reads, result, outcome, bars, ind, call, pc, disk

vars == <<df, votes, voters, reads, result, outcome, bars, ind, call, pc, disk>>

----------------------------------------------------------------------------
(* Cells *)

NaN == [k |-> "nan", v |-> 0]
Num(x) == [k |-> "num", v |-> x]
PosInf == [k |-> "inf", v |-> 1]
NegInf == [k |-> "inf", v |-> -1]

\* pd.notna: infinities are "not NA"
notna(x) == x.k # "nan"

\* IEEE comparisons: every comparison with NaN is false
Gt(a, b) ==
    /\ notna(a)
    /\ notna(b)
    /\ IF a.k = "num" /\ b.k = "num" THEN a.v > b.v
       ELSE IF a.k = "inf" /\ b.k = "inf" THEN a.v > b.v
       ELSE IF a.k = "inf" THEN a.v > 0
       ELSE b.v < 0
Lt(a, b) == Gt(b, a)
Ge(a, b) == notna(a) /\ notna(b) /\ ~Gt(b, a)
Le(a, b) == Ge(b, a)

----------------------------------------------------------------------------
(* Binary floating point.                                                  *)
(* votes is a Python list of ints and floats and the score is              *)
(* sum(votes) / len(votes) in IEEE-754 doubles.  A double x that stands    *)
(* for the rational q/D is kept as the pair (q, e): x = q/D + (e/E) * W    *)
(* with W = 2^-64, so e is the (tiny) representation error.  All           *)
(* quantities stay far below 2^31.                                         *)

RECURSIVE Pow2Rec(_)
Pow2Rec(n) == IF n <= 0 THEN 1 ELSE 2 * Pow2Rec(n - 1)

Pow2Table == [n \in 0..20 |-> Pow2Rec(n)]
Pow2(n) == Pow2Table[n]

RECURSIVE TwoAdic(_)
TwoAdic(d) == IF d % 2 = 0 THEN 1 + TwoAdic(d \div 2) ELSE 0

OddPart(d) == d \div Pow2(TwoAdic(d))

\* 2^n mod o for the odd parts o = 15 * k of the denominators in use
RECURSIVE Pow2ModRec(_, _)
Pow2ModRec(n, o) == IF n <= 0 THEN 1 % o ELSE (2 * Pow2ModRec(n - 1, o)) % o

Pow2ModTable == [k \in 1..11 |-> [n \in 0..70 |-> Pow2ModRec(n, 15 * k)]]
Pow2Mod(n, o) == Pow2ModTable[o \div 15][n]

\* 2^b <= q/D, for q > 0
AtLeastPow2(q, D, b) == IF b >= 0 THEN D * Pow2(b) <= q ELSE D <= q * Pow2(-b)

\* floor(log2(q/D)) for 1/1024 <= q/D < 16
BinadeOf(q, D) == CHOOSE b \in -10..3 : AtLeastPow2(q, D, b) /\ ~AtLeastPow2(q, D, b + 1)

\* the denominators in use are 60 * n for n <= 11 votes, the numerators at
\* most 60 * 11
BinadeTable == [n \in 1..11 |-> [q \in 1..660 |-> BinadeOf(q, 60 * n)]]
Binade(q, D) == BinadeTable[D \div 60][q]

IsPow2(q, D, b) == IF b >= 0 THEN D * Pow2(b) = q ELSE D = q * Pow2(-b)

\* Round-to-nearest-even of the real q/D + (e/E)W, q > 0, to a double;
\* the result is the error of that double against q/D, in units W/E.
\* The doubles of binade b are the multiples of 2^(b-52) = 2^(b+12) W.
FlPos(q, D, e, E) ==
    LET b0   == Binade(q, D)
        b    == IF IsPow2(q, D, b0) /\ e < 0 THEN b0 - 1 ELSE b0
        a    == TwoAdic(D)
        o    == OddPart(D)
        G    == Pow2(b + 12)
        r    == (q * Pow2Mod(52 - b - a, o)) % o
        base == r * (E \div o) * G
        off  == base + e
        Gs   == G * E
        m    == off \div Gs
        rem  == off - m * Gs
        up   == 2 * rem > Gs \/ (2 * rem = Gs /\ (r + m) % 2 = 1)
    IN  (IF up THEN m + 1 ELSE m) * Gs - base

Fl(q, D, e, E) ==
    IF q = 0 THEN e
    ELSE IF q > 0 THEN FlPos(q, D, e, E)
    ELSE -FlPos(-q, D, -e, E)

\* sixtieths: 60 = lcm of the denominators 2, 3, 4, 5, 10 of the votes
VoteScale == 4 * 3 * 5
\* the odd part of VoteScale: errors are kept in units W/15
ErrScale == 3 * 5

\* the double a vote literal (0.8, 0.3, ...) or the quotient
\* sum(ma_signals) / len(ma_signals) evaluates to
VoteErrTable == [q \in -VoteScale..VoteScale |-> Fl(q, VoteScale, 0, ErrScale)]
VoteErr(q) == VoteErrTable[q]

\* Python's sum(): integers are added exactly while only integers have been
\* met; from the first float on the total is a double.  CPython up to 3.11
\* rounds after every addition.  CPython from 3.12 on keeps, for every
\* float item added to the double total, the rounding error of that
\* addition in a compensation term which it adds at the end; the first
\* float (added to the integer total) and later integer items are added
\* without compensation.
Builds == {"sequential", "compensated"}

\* the votes that are Python ints: the literals 1, -1 and 0; the MA
\* alignment vote is a quotient, a float
IsInt(v, key) == key # "MA" /\ v \in {-VoteScale, 0, VoteScale}

\* q, e: the total so far; c: the compensation; floats: a float was met
RECURSIVE SumFrom(_, _, _, _, _, _, _, _)
SumFrom(vs, by, build, i, q, e, c, floats) ==
    IF i > Len(vs) THEN <<q, IF c = 0 THEN e ELSE Fl(q, VoteScale, e + c, ErrScale)>>
    ELSE LET exact == e + VoteErr(vs[i])
             e2    == Fl(q + vs[i], VoteScale, exact, ErrScale)
             isInt == IsInt(vs[i], by[i])
             kept  == build = "compensated" /\ floats /\ ~isInt
         IN  SumFrom(vs, by, build, i + 1, q + vs[i], e2,
                     IF kept THEN c + (exact - e2) ELSE c,
                     floats \/ ~isInt)

RECURSIVE SeqSum(_)
SeqSum(s) == IF s = <<>> THEN 0 ELSE Head(s) + SeqSum(Tail(s))

PySum(vs, by, build) == SumFrom(vs, by, build, 1, 0, 0, 0, FALSE)

\* The unrounded score: the double standing for q/(VoteScale*n), with error
\* e in units W/(ErrScale*n).  A sum that cancels to (almost) zero gives a
\* score of magnitude below 2^-50, kept as q = 0, e = 0.
ZeroScore == [q |-> 0, n |-> 1, e |-> 0]

NonZero(vs) == {i \in 1..Len(vs) : vs[i] # 0}
RECURSIVE Keep(_, _, _)
Keep(s, I, i) ==
    IF i > Len(s) THEN <<>>
    ELSE (IF i \in I THEN <<s[i]>> ELSE <<>>) \o Keep(s, I, i + 1)

\* MeanOfVotes with the zero votes left out of the mean
MeanOfVotes_SkipZeros(vs, by, build) ==
    LET nz == Keep(vs, NonZero(vs), 1)
        nb == Keep(by, NonZero(vs), 1)
    IN  IF nz = <<>> THEN ZeroScore
        ELSE LET s == PySum(nz, nb, build)
                 n == Len(nz)
             IN  IF s[1] = 0 THEN ZeroScore
                 ELSE [q |-> s[1], n |-> n,
                       e |-> Fl(s[1], VoteScale * n, s[2], ErrScale * n)]

\* signals.py:192-196
MeanOfVotes(vs, by, build) ==
    IF vs = <<>> THEN ZeroScore
    ELSE LET s == PySum(vs, by, build)
             n == Len(vs)
         IN  IF s[1] = 0 THEN ZeroScore
             ELSE [q |-> s[1], n |-> n,
                   e |-> Fl(s[1], VoteScale * n, s[2], ErrScale * n)]

\* score >= t / VoteScale and score > t / VoteScale, where the threshold is
\* the double its literal (0.6, 0.2, -0.2, -0.6) evaluates to
ScoreGe(s, t) == s.q > t * s.n \/ (s.q = t * s.n /\ s.e >= VoteErr(t) * s.n)
ScoreGt(s, t) == s.q > t * s.n \/ (s.q = t * s.n /\ s.e > VoteErr(t) * s.n)

\* 0.6 and 0.2 in sixtieths
StrongAt == (6 * VoteScale) \div 10
WeakAt == (2 * VoteScale) \div 10

score_to_signal(s) ==
    IF ScoreGe(s, StrongAt) THEN "strong_buy"
    ELSE IF ScoreGe(s, WeakAt) THEN "buy"
    ELSE IF ScoreGt(s, -WeakAt) THEN "hold"
    ELSE IF ScoreGt(s, -StrongAt) THEN "sell"
    ELSE "strong_sell"

\* round(score, 3), in thousandths: the thousandth nearest to the double;
\* when q/(VoteScale*n) lies exactly between two thousandths the side of
\* the double decides, and an exactly representable tie goes to even.
Round3(s) ==
    LET num == 1000 * s.q
        den == VoteScale * s.n
        f   == num \div den
        rem == num - f * den
    IN  IF 2 * rem > den THEN f + 1
        ELSE IF 2 * rem < den THEN f
        ELSE IF s.e > 0 THEN f + 1
        ELSE IF s.e < 0 THEN f
        ELSE IF f % 2 = 0 THEN f ELSE f + 1

\* _label(ma_score), ma_score given in sixtieths (no ma_score equals 0.6)
label(v) ==
    IF v >= StrongAt THEN "strong_bullish"
    ELSE IF v > 0 THEN "bullish"
    ELSE IF v = 0 THEN "neutral"
    ELSE IF v > -StrongAt THEN "bearish"
    ELSE "strong_bearish"

----------------------------------------------------------------------------
(* config.py *)

ma_periods == <<5, 10, 20, 60>>
vol_ma_periods == <<5, 10, 20>>
rsi_overbought == 70
rsi_oversold == 30
adx_strong == 25

\* %B is kept in hundredths
PctBScale == 10 * 10

----------------------------------------------------------------------------
(* analysis/signals.py *)

\* the columns compute_all adds to the six raw ones
Columns ==
    {"date", "open", "high", "low", "close", "volume",
     "MA5", "MA10", "MA20", "MA60", "ROC", "MOM", "RSI",
     "MACD", "MACD_signal", "MACD_hist", "ADX", "DI_pos", "DI_neg",
     "BOLL_mid", "BOLL_upper", "BOLL_lower", "BOLL_width", "BOLL_pctB",
     "VOL_MA5", "VOL_MA10", "VOL_MA20", "VROC", "OBV", "MFI"}

\* the columns generate_signals reads
SigCols ==
    {"close", "volume", "MA5", "MA10", "MA20", "MA60", "ROC", "MOM", "RSI",
     "MACD", "MACD_hist", "ADX", "DI_pos", "DI_neg",
     "BOLL_upper", "BOLL_lower", "BOLL_pctB",
     "VOL_MA5", "VOL_MA10", "VOL_MA20", "VROC", "OBV", "MFI"}

MACol(p) == CASE p = 5 -> "MA5" [] p = 10 -> "MA10" [] p = 20 -> "MA20" [] p = 60 -> "MA60"
VolMACol(p) == CASE p = 5 -> "VOL_MA5" [] p = 10 -> "VOL_MA10" [] p = 20 -> "VOL_MA20"

\* a vote num/den in sixtieths
Vote(num, den) == (num * VoteScale) \div den

NoDetails == [x \in {} |-> ""]
\* what one sub-signal does: the votes it appends (none or one), under its
\* name, and the details entry it sets
Nothing == [votes |-> <<>>, by |-> <<>>, details |-> NoDetails]
Emit(v, key, txt) == [votes |-> <<v>>, by |-> <<key>>, details |-> (key :> txt)]
Describe(key, txt) == [votes |-> <<>>, by |-> <<>>, details |-> (key :> txt)]

\* cell arithmetic: NaN propagates
Sub(a, b) ==
    IF ~notna(a) \/ ~notna(b) THEN NaN
    ELSE IF a.k = "num" /\ b.k = "num" THEN Num(a.v - b.v)
    ELSE IF a.k = "inf" /\ b.k = "inf" THEN (IF a.v = b.v THEN NaN ELSE a)
    ELSE IF a.k = "inf" THEN a
    ELSE [k |-> "inf", v |-> -b.v]

Times(a, c) == IF a.k = "num" THEN Num(a.v * c) ELSE a

\* signals.py:29-38
RECURSIVE ma_signals(_, _)
ma_signals(row, i) ==
    IF i > Len(ma_periods) THEN <<>>
    ELSE LET col == MACol(ma_periods[i])
             s   == IF Gt(row["close"], row[col]) THEN 1
                    ELSE IF Lt(row["close"], row[col]) THEN -1
                    ELSE 0
         IN  (IF notna(row[col]) THEN <<s>> ELSE <<>>) \o ma_signals(row, i + 1)

\* signals.py:39-42
MAAlignment(row) ==
    LET sigs == ma_signals(row, 1)
    IN  IF sigs = <<>> THEN Nothing
        ELSE LET ma_score == (VoteScale * SeqSum(sigs)) \div Len(sigs)
             IN  Emit(ma_score, "MA", label(ma_score))

\* MACross with the previous-row comparison made strict
MACross_StrictPrev(row, prev) ==
    IF ~({"MA5", "MA20"} \subseteq Columns) THEN Nothing
    ELSE IF notna(row["MA5"]) /\ notna(prev["MA5"])
            /\ notna(row["MA20"]) /\ notna(prev["MA20"])
         THEN IF Lt(prev["MA5"], prev["MA20"]) /\ Gt(row["MA5"], row["MA20"])
              THEN Emit(Vote(1, 1), "MA_cross", "golden_cross")
              ELSE IF Gt(prev["MA5"], prev["MA20"]) /\ Lt(row["MA5"], row["MA20"])
              THEN Emit(Vote(-1, 1), "MA_cross", "death_cross")
              ELSE Describe("MA_cross", "none")
         ELSE Describe("MA_cross", "none")

\* signals.py:44-55
MACross(row, prev) ==
    IF ~({"MA5", "MA20"} \subseteq Columns) THEN Nothing
    ELSE IF notna(row["MA5"]) /\ notna(prev["MA5"])
            /\ notna(row["MA20"]) /\ notna(prev["MA20"])
         THEN IF Le(prev["MA5"], prev["MA20"]) /\ Gt(row["MA5"], row["MA20"])
              THEN Emit(Vote(1, 1), "MA_cross", "golden_cross")
              ELSE IF Ge(prev["MA5"], prev["MA20"]) /\ Lt(row["MA5"], row["MA20"])
              THEN Emit(Vote(-1, 1), "MA_cross", "death_cross")
              ELSE Describe("MA_cross", "none")
         ELSE Describe("MA_cross", "none")

\* the overbought test made strict: stands in for a mutation of RSISignal
RSISignal_StrictOverbought(row) ==
    IF ~notna(row["RSI"]) THEN Nothing
    ELSE IF Gt(row["RSI"], Num(rsi_overbought)) THEN Emit(Vote(-1, 1), "RSI", "overbought")
    ELSE IF Le(row["RSI"], Num(rsi_oversold)) THEN Emit(Vote(1, 1), "RSI", "oversold")
    ELSE Emit(IF Gt(row["RSI"], Num(50)) THEN Vote(1, 2) ELSE Vote(-1, 2), "RSI", "neutral")

\* signals.py:57-71
RSISignal(row) ==
    IF ~notna(row["RSI"]) THEN Nothing
    ELSE IF Ge(row["RSI"], Num(rsi_overbought)) THEN Emit(Vote(-1, 1), "RSI", "overbought")
    ELSE IF Le(row["RSI"], Num(rsi_oversold)) THEN Emit(Vote(1, 1), "RSI", "oversold")
    ELSE Emit(IF Gt(row["RSI"], Num(50)) THEN Vote(1, 2) ELSE Vote(-1, 2), "RSI", "neutral")

\* a bullish cross only onto a positive histogram: stands in for a mutation
\* of MACDSignal
MACDSignal_StrictCross(row, prev) ==
    IF ~({"MACD", "MACD_signal", "MACD_hist"} \subseteq Columns) THEN Nothing
    ELSE IF ~(notna(row["MACD"]) /\ notna(prev["MACD_hist"])) THEN Nothing
    ELSE LET hist_now  == row["MACD_hist"]
             hist_prev == prev["MACD_hist"]
         IN  IF Lt(hist_prev, Num(0)) /\ Gt(hist_now, Num(0))
             THEN Emit(Vote(1, 1), "MACD", "bullish_cross")
             ELSE IF Gt(hist_prev, Num(0)) /\ Le(hist_now, Num(0))
             THEN Emit(Vote(-1, 1), "MACD", "bearish_cross")
             ELSE IF Gt(hist_now, Num(0))
             THEN Emit(Vote(1, 2), "MACD", "bullish_regime")
             ELSE Emit(Vote(-1, 2), "MACD", "bearish_regime")

\* signals.py:73-91
MACDSignal(row, prev) ==
    IF ~({"MACD", "MACD_signal", "MACD_hist"} \subseteq Columns) THEN Nothing
    ELSE IF ~(notna(row["MACD"]) /\ notna(prev["MACD_hist"])) THEN Nothing
    ELSE LET hist_now  == row["MACD_hist"]
             hist_prev == prev["MACD_hist"]
         IN  IF Lt(hist_prev, Num(0)) /\ Ge(hist_now, Num(0))
             THEN Emit(Vote(1, 1), "MACD", "bullish_cross")
             ELSE IF Gt(hist_prev, Num(0)) /\ Le(hist_now, Num(0))
             THEN Emit(Vote(-1, 1), "MACD", "bearish_cross")
             ELSE IF Gt(hist_now, Num(0))
             THEN Emit(Vote(1, 2), "MACD", "bullish_regime")
             ELSE Emit(Vote(-1, 2), "MACD", "bearish_regime")

\* signals.py:93-108
ADXSignal(row) ==
    IF ~({"ADX", "DI_pos", "DI_neg"} \subseteq Columns) THEN Nothing
    ELSE IF ~notna(row["ADX"]) THEN Nothing
    ELSE IF Ge(row["ADX"], Num(adx_strong))
         THEN IF Gt(row["DI_pos"], row["DI_neg"])
              THEN Emit(Vote(8, 10), "ADX", "strong_up")
              ELSE Emit(Vote(-8, 10), "ADX", "strong_down")
         ELSE Emit(0, "ADX", "weak_trend")

\* signals.py:110-130
BollSignal(row) ==
    IF ~({"BOLL_upper", "BOLL_lower", "BOLL_pctB"} \subseteq Columns) THEN Nothing
    ELSE IF ~notna(row["BOLL_pctB"]) THEN Nothing
    ELSE LET pct_b == row["BOLL_pctB"]
         IN  IF Gt(pct_b, Num(PctBScale)) THEN Emit(Vote(-1, 1), "BOLL", "broke_upper")
             ELSE IF Lt(pct_b, Num(0)) THEN Emit(Vote(1, 1), "BOLL", "broke_lower")
             ELSE IF Gt(pct_b, Num((8 * PctBScale) \div 10))
             THEN Emit(Vote(-1, 2), "BOLL", "near_upper")
             ELSE IF Lt(pct_b, Num((2 * PctBScale) \div 10))
             THEN Emit(Vote(1, 2), "BOLL", "near_lower")
             ELSE Emit(0, "BOLL", "middle")

\* signals.py:133-137 and 139-143
SignVote(x) == IF Gt(x, Num(0)) THEN Vote(1, 2) ELSE IF Lt(x, Num(0)) THEN Vote(-1, 2) ELSE 0

ROCSignal(row) ==
    IF ~notna(row["ROC"]) THEN Nothing
    ELSE Emit(SignVote(row["ROC"]), "ROC",
              IF Gt(row["ROC"], Num(0)) THEN "positive" ELSE "negative")

MOMSignal(row) ==
    IF ~notna(row["MOM"]) THEN Nothing
    ELSE Emit(SignVote(row["MOM"]), "Momentum",
              IF Gt(row["MOM"], Num(0)) THEN "positive" ELSE "negative")

\* OBVSignal reading the row five bars before the last one
OBVSignal_FiveBarsBack(d) ==
    IF ~("OBV" \in Columns /\ Len(d) >= 6) THEN Nothing
    ELSE LET obv_slope == Sub(d[Len(d)]["OBV"], d[Len(d) - 5]["OBV"])
         IN  IF Gt(obv_slope, Num(0)) THEN Emit(Vote(1, 2), "OBV", "rising")
             ELSE IF Lt(obv_slope, Num(0)) THEN Emit(Vote(-1, 2), "OBV", "falling")
             ELSE Describe("OBV", "flat")

\* signals.py:148-158; df.iloc[-5] is the fifth row from the end
OBVSignal(d) ==
    IF ~("OBV" \in Columns /\ Len(d) >= 5) THEN Nothing
    ELSE LET obv_slope == Sub(d[Len(d)]["OBV"], d[Len(d) - 4]["OBV"])
         IN  IF Gt(obv_slope, Num(0)) THEN Emit(Vote(1, 2), "OBV", "rising")
             ELSE IF Lt(obv_slope, Num(0)) THEN Emit(Vote(-1, 2), "OBV", "falling")
             ELSE Describe("OBV", "flat")

\* signals.py:160-172
MFISignal(row) ==
    IF ~notna(row["MFI"]) THEN Nothing
    ELSE IF Ge(row["MFI"], Num(80)) THEN Emit(Vote(-8, 10), "MFI", "overbought_outflow")
    ELSE IF Le(row["MFI"], Num(20)) THEN Emit(Vote(8, 10), "MFI", "oversold_inflow")
    ELSE IF Gt(row["MFI"], Num(50)) THEN Emit(Vote(3, 10), "MFI", "leaning_long")
    ELSE Emit(Vote(-3, 10), "MFI", "leaning_short")

\* the VROC check casting a vote on the sign of VROC: stands in for a
\* mutation of VROCDetail
VROCDetail_Votes(row) ==
    IF notna(row["VROC"])
    THEN Emit(IF Gt(row["VROC"], Num(0)) THEN Vote(1, 2) ELSE Vote(-1, 2), "VROC", "volume_change")
    ELSE Nothing

\* signals.py:174-177
VROCDetail(row) ==
    IF notna(row["VROC"]) THEN Describe("VROC", "volume_change") ELSE Nothing

\* signals.py:180-188; volume > ma * 1.5 is 2 * volume > 3 * ma
RECURSIVE VolMADetails(_, _)
VolMADetails(row, i) ==
    IF i > Len(vol_ma_periods) THEN NoDetails
    ELSE LET col == VolMACol(vol_ma_periods[i])
             txt == IF Gt(Times(row["volume"], 2), Times(row[col], 3)) THEN "high"
                    ELSE IF Lt(Times(row["volume"], 2), Times(row[col], 1)) THEN "low"
                    ELSE "normal"
         IN  (IF notna(row[col]) THEN (col :> txt) ELSE NoDetails)
             @@ VolMADetails(row, i + 1)

\* signals.py:179-188: the volume-versus-average check as a sub-signal; it
\* touches neither votes nor vol_signals
VolMACheck(row) == [votes |-> <<>>, by |-> <<>>, details |-> VolMADetails(row, 1)]

\* the "N/A" string of the snapshot and the None of the price levels
NA == [k |-> "na", v |-> 0]
None == [k |-> "none", v |-> 0]

\* nearest integer to a/b, b > 0, ties to even
RoundDiv(a, b) ==
    LET f == a \div b
        r == a - f * b
    IN  IF 2 * r > b THEN f + 1
        ELSE IF 2 * r < b THEN f
        ELSE IF f % 2 = 0 THEN f ELSE f + 1

\* signals.py:203: (close / prev_close - 1) * 100 printed with two decimals,
\* in hundredths of a percent; numpy divides by zero without raising
ChangePct(c, p) ==
    IF ~notna(p) THEN NA
    ELSE IF ~notna(c) THEN NaN
    ELSE IF c.k = "inf" \/ p.k = "inf" THEN NaN
    ELSE IF p.v = 0 THEN (IF c.v > 0 THEN PosInf ELSE IF c.v < 0 THEN NegInf ELSE NaN)
    ELSE IF p.v > 0 THEN Num(RoundDiv(10000 * (c.v - p.v), p.v))
    ELSE Num(RoundDiv(-10000 * (c.v - p.v), -p.v))

OrNA(x) == IF notna(x) THEN x ELSE NA
OrNone(x) == IF notna(x) THEN x ELSE None

\* int(x) raises ValueError on NaN and OverflowError on an infinity
IntRaises(x) == x.k # "num"

\* signals.py:201-210
Latest(row, prev) ==
    [close      |-> row["close"],
     change_pct |-> ChangePct(row["close"], prev["close"]),
     volume     |-> row["volume"],
     RSI        |-> OrNA(row["RSI"]),
     MACD_hist  |-> OrNA(row["MACD_hist"]),
     ADX        |-> OrNA(row["ADX"]),
     MFI        |-> OrNA(row["MFI"]),
     OBV        |-> OrNA(row["OBV"])]

LatestRaises(row) == IntRaises(row["volume"]) \/ (notna(row["OBV"]) /\ IntRaises(row["OBV"]))

\* signals.py:212-218
PriceLevels(row) ==
    [close      |-> row["close"],
     boll_upper |-> OrNone(row["BOLL_upper"]),
     boll_lower |-> OrNone(row["BOLL_lower"]),
     ma20       |-> OrNone(row["MA20"]),
     ma60       |-> OrNone(row["MA60"])]

\* signals.py:20
Sentinel == [signal |-> "insufficient_data", score |-> 0, details |-> NoDetails, latest |-> NoDetails]

\* EarlyReturn that tests df.empty only
EarlyReturn_OnlyEmpty(d) == Len(d) = 0

\* signals.py:19
EarlyReturn(d) == Len(d) = 0 \/ Len(d) < 2

\* the sub-signals in the order their votes reach the list: the votes of
\* the volume block (vol_signals) are appended last, signals.py:190
SubSignals(d) ==
    LET row  == d[Len(d)]
        prev == d[Len(d) - 1]
    IN  <<MAAlignment(row), MACross(row, prev), RSISignal(row), MACDSignal(row, prev),
          ADXSignal(row), BollSignal(row), ROCSignal(row), MOMSignal(row),
          OBVSignal(d), MFISignal(row), VROCDetail(row), VolMACheck(row)>>

RECURSIVE AllVotes(_)
AllVotes(subs) == IF subs = <<>> THEN <<>> ELSE Head(subs).votes \o AllVotes(Tail(subs))

RECURSIVE AllVoters(_)
AllVoters(subs) == IF subs = <<>> THEN <<>> ELSE Head(subs).by \o AllVoters(Tail(subs))

RECURSIVE AllDetails(_)
AllDetails(subs) == IF subs = <<>> THEN NoDetails ELSE Head(subs).details @@ AllDetails(Tail(subs))

\* signals.py:198 and 220-226: the label is taken from the unrounded score
MakeResult(score, details, latest, price_levels) ==
    [signal       |-> score_to_signal(score),
     score        |-> Round3(score),
     details      |-> details,
     latest       |-> latest,
     price_levels |-> price_levels]

Call(outcome_, votes_, voters_, reads_, result_) ==
    [outcome |-> outcome_, votes |-> votes_, voters |-> voters_, reads |-> reads_,
     result |-> result_]

\* signals.py:10-226: the outcome of a call, for each way the build may sum
\* the votes.  df.iloc[-1] and df.iloc[-2] raise IndexError on a series
\* without such a row.
generate_signals(d) ==
    IF EarlyReturn(d)
    THEN [b \in Builds |-> Call("returned", <<>>, <<>>, {}, Sentinel)]
    ELSE IF Len(d) < 2
    THEN [b \in Builds |-> Call("raised", <<>>, <<>>, {}, [error |-> "IndexError"])]
    ELSE LET row   == d[Len(d)]
             prev  == d[Len(d) - 1]
             subs  == SubSignals(d)
             vs    == AllVotes(subs)
             who   == AllVoters(subs)
             dets  == AllDetails(subs)
             lat   == Latest(row, prev)
             lev   == PriceLevels(row)
         IN  IF LatestRaises(row)
             THEN [b \in Builds |->
                    Call("raised", vs, who, SigCols,
                         [error |-> IF notna(row["volume"]) THEN "OverflowError"
                                    ELSE "ValueError"])]
             ELSE [b \in Builds |->
                    Call("returned", vs, who, SigCols,
                         MakeResult(MeanOfVotes(vs, who, b), dets, lat, lev))]

----------------------------------------------------------------------------
(* Inputs of the fusion engine: enriched series.                           *)
(* A series is a sequence of rows; its last two rows carry the indicator   *)
(* values, the rows before them carry only what the code reads there (the  *)
(* OBV column).  The inputs are grouped by the blocks of generate_signals; *)
(* an input differs from the plain two-row series in at most MaxActive     *)
(* blocks.                                                                 *)

MaxActive == 3
MaxRows == 6

Sections == {"PRICE", "MA", "RSI", "MACD", "ADX", "BOLL", "MOMENTUM", "VOLUME"}

BaseRow ==
    [c \in SigCols |->
        IF c = "close" THEN Num(10)
        ELSE IF c = "volume" THEN Num(100)
        ELSE IF c = "OBV" THEN Num(0)
        ELSE NaN]

NoCells == [x \in {} |-> NaN]
Same == [row |-> NoCells, prev |-> NoCells]

Cells(S) == {NaN} \cup {Num(x) : x \in S}

\* the last close, the previous close, the last volume and its 5-bar mean
PriceInputs ==
    {[row |-> ("close" :> NaN), prev |-> NoCells],
     [row |-> ("volume" :> NaN), prev |-> NoCells],
     [row |-> ("VOL_MA5" :> Num(50) @@ "VROC" :> Num(5)), prev |-> NoCells],
     [row |-> NoCells, prev |-> ("close" :> NaN)],
     [row |-> NoCells, prev |-> ("close" :> Num(0))]}

\* a moving average and its previous value leave the warm-up together
MAInputs ==
    {[row |-> ("MA5" :> a[1] @@ "MA10" :> b @@ "MA20" :> c[1]),
      prev |-> ("MA5" :> a[2] @@ "MA20" :> c[2])] :
        a \in {<<NaN, NaN>>, <<Num(12), Num(10)>>, <<Num(10), Num(12)>>, <<Num(12), Num(12)>>},
        b \in Cells({9}),
        c \in {<<NaN, NaN>>, <<Num(11), Num(11)>>}}

RSIInputs == {[row |-> ("RSI" :> r), prev |-> NoCells] : r \in Cells({30, 50, 60, 70})}

MACDInputs ==
    {[row |-> ("MACD" :> Num(1) @@ "MACD_hist" :> hp[1]), prev |-> ("MACD_hist" :> hp[2])] :
        hp \in ({Num(-1), Num(1)} \X {Num(-1), Num(1)})
               \cup {<<NaN, Num(1)>>, <<Num(1), NaN>>}}

ADXInputs ==
    {[row |-> ("ADX" :> a @@ "DI_pos" :> d[1] @@ "DI_neg" :> d[2]), prev |-> NoCells] :
        a \in {Num(20), Num(25)},
        d \in {<<NaN, NaN>>, <<Num(1), Num(2)>>, <<Num(2), Num(1)>>}}

BollInputs ==
    {[row |-> ("BOLL_pctB" :> b @@ "BOLL_upper" :> Num(12) @@ "BOLL_lower" :> Num(8)),
      prev |-> NoCells] : b \in Cells({-10, 10, 50, 90, 110})}

MomentumInputs ==
    {[row |-> ("ROC" :> r @@ "MOM" :> m), prev |-> NoCells] :
        r \in Cells({-1, 0, 1}), m \in Cells({1})}

\* the history: the number of rows and the OBV column, which steps from a
\* to b on the last row
History(n, a, b) == [n |-> n, obv |-> [i \in 1..n |-> Num(IF i = n THEN b ELSE a)]]

Histories ==
    {History(n, 0, 0) : n \in {0, 1, 2, MaxRows}}
        \cup {History(MaxRows, 0, 1), History(MaxRows, 1, 0)}

FlatHistory == History(2, 0, 0)

VolumeInputs ==
    {[row |-> ("MFI" :> m), prev |-> NoCells, hist |-> h] :
        m \in Cells({40}), h \in Histories}

NoVolume == [row |-> NoCells, prev |-> NoCells, hist |-> FlatHistory]

Pick(S, sec, inputs, default) == IF sec \in S THEN inputs ELSE {default}

\* the series with n rows built from the blocks' cells
MkDf(hist, rowCells, prevCells) ==
    [i \in 1..hist.n |->
        (IF i = hist.n THEN rowCells ELSE IF i = hist.n - 1 THEN prevCells ELSE NoCells)
        @@ ("OBV" :> hist.obv[i]) @@ BaseRow]

Pending == [pending |-> TRUE]

InitIdle ==
    /\ votes = <<>>
    /\ voters = <<>>
    /\ reads = {}
    /\ result = Pending
    /\ outcome = "pending"

\* what the process keeps on disk (the price database, the watchlist file,
\* the report directory); the operations above touch none of it
NoDisk == [kind |-> "none"]

InitOther == InitIdle /\ disk = NoDisk

InitInd == bars = <<>> /\ ind = Pending

\* no other operation is in progress
NoCall == [op |-> "none"]
InitCall == call = NoCall /\ pc = 0

Init ==
    /\ \E S \in {T \in SUBSET Sections : Cardinality(T) <= MaxActive} :
       \E pr \in Pick(S, "PRICE", PriceInputs, Same),
          ma \in Pick(S, "MA", MAInputs, Same),
          rs \in Pick(S, "RSI", RSIInputs, Same),
          mc \in Pick(S, "MACD", MACDInputs, Same),
          ad \in Pick(S, "ADX", ADXInputs, Same),
          bo \in Pick(S, "BOLL", BollInputs, Same),
          mo \in Pick(S, "MOMENTUM", MomentumInputs, Same),
          vo \in Pick(S, "VOLUME", VolumeInputs, NoVolume) :
            df = MkDf(vo.hist,
                      pr.row @@ ma.row @@ rs.row @@ mc.row @@ ad.row @@ bo.row @@ mo.row @@ vo.row,
                      pr.prev @@ ma.prev @@ mc.prev)
    /\ InitOther
    /\ InitInd
    /\ InitCall

\* one call of generate_signals on the series
GenerateSignals ==
    /\ outcome = "pending"
    /\ \E r \in {generate_signals(df)[b] : b \in Builds} :
         /\ outcome' = r.outcome
         /\ votes' = r.votes
         /\ voters' = r.voters
         /\ reads' = r.reads
         /\ result' = r.result
    /\ UNCHANGED <<df, bars, ind, call, pc, disk>>

Next == GenerateSignals

Spec == Init /\ [][Next]_vars

----------------------------------------------------------------------------
(* generate_signals on series that exercise one block in full: every        *)
(* ordering of the two moving averages on the last two rows, and every      *)
(* ordering of the OBV values the slope rule can reach.                     *)

CrossLevels == {10, 11, 12}

CrossInputs ==
    {[row |-> ("MA5" :> a @@ "MA20" :> b), prev |-> ("MA5" :> c @@ "MA20" :> d)] :
        a \in Cells(CrossLevels), b \in Cells(CrossLevels),
        c \in Cells(CrossLevels), d \in Cells(CrossLevels)}

InitCross ==
    /\ \E ma \in CrossInputs, n \in {2, MaxRows} :
         df = MkDf(History(n, 0, 0), ma.row, ma.prev)
    /\ InitOther
    /\ InitInd
    /\ InitCall

SpecCross == InitCross /\ [][Next]_vars

\* every position of RSI against the thresholds and the mid-line, and every
\* sign of the histogram on the last two rows
RuleRSI ==
    {[row |-> ("RSI" :> r), prev |-> NoCells] :
        r \in Cells({0, rsi_oversold - 1, rsi_oversold, rsi_oversold + 1, 49, 50, 51,
                     rsi_overbought - 1, rsi_overbought, rsi_overbought + 1, 100})}

RuleMACD ==
    {[row |-> ("MACD" :> m @@ "MACD_hist" :> now), prev |-> ("MACD_hist" :> before)] :
        m \in Cells({1}), now \in Cells({-1, 0, 1}), before \in Cells({-1, 0, 1})}

InitRules ==
    /\ \E rs \in RuleRSI, mc \in RuleMACD, n \in {2, MaxRows} :
         df = MkDf(History(n, 0, 0), rs.row @@ mc.row, mc.prev)
    /\ InitOther
    /\ InitInd
    /\ InitCall

SpecRules == InitRules /\ [][Next]_vars

\* every position of ADX against the strong-trend threshold and every
\* ordering of the two directional indicators
RuleADX ==
    {[row |-> ("ADX" :> a @@ "DI_pos" :> p @@ "DI_neg" :> m), prev |-> NoCells] :
        a \in Cells({0, adx_strong - 1, adx_strong, adx_strong + 1, 100}),
        p \in Cells({1, 2}), m \in Cells({1, 2})}

InitADX ==
    /\ \E ad \in RuleADX, n \in {2, MaxRows} :
         df = MkDf(History(n, 0, 0), ad.row, ad.prev)
    /\ InitOther
    /\ InitInd
    /\ InitCall

SpecADX == InitADX /\ [][Next]_vars

OBVLevels == {0, 1, 2}

\* n rows whose OBV is free on the last row and on the fifth and sixth rows
\* from the end, where they exist
OBVHistories ==
    {[n |-> n,
      obv |-> [i \in 1..n |->
                IF i = n THEN c[1]
                ELSE IF i = n - 4 THEN c[2]
                ELSE IF i = n - 5 THEN c[3]
                ELSE Num(0)]] :
        n \in 2..MaxRows,
        c \in Cells(OBVLevels) \X Cells(OBVLevels) \X Cells(OBVLevels)}

InitOBV ==
    /\ \E h \in OBVHistories : df = MkDf(h, NoCells, NoCells)
    /\ InitOther
    /\ InitInd
    /\ InitCall

SpecOBV == InitOBV /\ [][Next]_vars

----------------------------------------------------------------------------
(* compute_all (indicators.py) on a series of daily bars.  A bar is a      *)
(* record of integers high, low, close, volume with low <= close <= high   *)
(* and volume >= 0.  Modelled are the columns whose values are exact in    *)
(* rationals: the moving averages, ROC, MOM, VROC and OBV, and the         *)
(* directional-movement series of _adx; a quotient is the cell             *)
(* Ratio(n, d), the number n/d.                                            *)

roc_period == 12
mom_period == 10
vroc_period == 12

Ratio(n, d) == [k |-> "num", v |-> n, d |-> d]

\* x / y as numpy divides two finite numbers, x and y the integers nx/dx
\* (dx > 0) and y: a zero divisor gives an infinity or, for 0/0, NaN
Divide(nx, dx, y) ==
    IF y = 0 THEN (IF nx = 0 THEN NaN ELSE IF nx > 0 THEN PosInf ELSE NegInf)
    ELSE IF y > 0 THEN Ratio(nx, dx * y)
    ELSE Ratio(-nx, dx * (-y))

Column(b, c) == [t \in 1..Len(b) |-> b[t][c]]

\* x.pct_change(n) * 100 at row t: (x[t] / x[t-n] - 1) * 100
pct_change100(x, n, t) ==
    IF t <= n THEN NaN
    ELSE LET q == Divide(x[t], 1, x[t - n])
         IN  IF q.k = "num" THEN Ratio(100 * (q.v - q.d), q.d) ELSE q

\* x.rolling(p).mean() at row t
RECURSIVE SumOver(_, _, _)
SumOver(x, from, to) == IF from > to THEN 0 ELSE x[from] + SumOver(x, from + 1, to)

\* rolling_mean defined one row late: stands in for a mutation of it
rolling_mean_OneRowLate(x, p, t) ==
    IF t <= p THEN NaN ELSE Ratio(SumOver(x, t - p + 1, t), p)

rolling_mean(x, p, t) == IF t < p THEN NaN ELSE Ratio(SumOver(x, t - p + 1, t), p)

\* indicators.py:39-42 and 125-128
ma(b, p, t) == rolling_mean(Column(b, "close"), p, t)
vol_ma(b, p, t) == rolling_mean(Column(b, "volume"), p, t)

\* indicators.py:45-48
roc(b, t) == pct_change100(Column(b, "close"), roc_period, t)

\* indicators.py:51-54
momentum(b, t) ==
    IF t <= mom_period THEN NaN ELSE Num(b[t].close - b[t - mom_period].close)

\* indicators.py:131-134
vroc(b, t) == pct_change100(Column(b, "volume"), vroc_period, t)

Sign(x) == IF x > 0 THEN 1 ELSE IF x < 0 THEN -1 ELSE 0

\* OBV with the first bar's volume counted: stands in for a mutation of obv
RECURSIVE obv_FirstBarCounted(_, _)
obv_FirstBarCounted(b, t) ==
    IF t <= 0 THEN 0
    ELSE IF t = 1 THEN b[1].volume
    ELSE obv_FirstBarCounted(b, t - 1) + Sign(b[t].close - b[t - 1].close) * b[t].volume

\* indicators.py:137-140: the running sum of sign(close.diff()) * volume,
\* the first difference counting as 0
RECURSIVE obv(_, _)
obv(b, t) ==
    IF t <= 1 THEN 0
    ELSE obv(b, t - 1) + Sign(b[t].close - b[t - 1].close) * b[t].volume

\* indicators.py:93-94: (high - high.shift()).clip(lower=0) and
\* (low.shift() - low).clip(lower=0); the first row has no previous bar
raw_dm_plus(b, t) ==
    IF t <= 1 THEN NaN
    ELSE Num(IF b[t].high - b[t - 1].high > 0 THEN b[t].high - b[t - 1].high ELSE 0)

raw_dm_minus(b, t) ==
    IF t <= 1 THEN NaN
    ELSE Num(IF b[t - 1].low - b[t].low > 0 THEN b[t - 1].low - b[t].low ELSE 0)

\* dm_plus with the comparison made against the previous bar's raw -DM
dm_plus_AgainstPreviousBar(b, t) ==
    IF t > 1 /\ Gt(raw_dm_plus(b, t), raw_dm_minus(b, t - 1)) THEN raw_dm_plus(b, t)
    ELSE Num(0)

\* indicators.py:96: dm_plus.where(dm_plus > dm_minus, 0)
dm_plus(b, t) ==
    IF Gt(raw_dm_plus(b, t), raw_dm_minus(b, t)) THEN raw_dm_plus(b, t) ELSE Num(0)

\* indicators.py:97: dm_minus.where(dm_minus > dm_plus.shift().fillna(0), 0),
\* dm_plus being the series line 96 has just filtered
dm_minus(b, t) ==
    LET shifted == IF t <= 1 THEN Num(0) ELSE dm_plus(b, t - 1)
    IN  IF Gt(raw_dm_minus(b, t), shifted) THEN raw_dm_minus(b, t) ELSE Num(0)

IndCols ==
    {"MA5", "MA10", "MA20", "MA60", "ROC", "MOM",
     "VOL_MA5", "VOL_MA10", "VOL_MA20", "VROC", "OBV"}

\* indicators.py:12-34: the columns added to the bars, and the two series
\* _adx smooths into DI+ and DI-
compute_all(b) ==
    [rows |-> [t \in 1..Len(b) |->
                [c \in IndCols |->
                    CASE c = "MA5" -> ma(b, ma_periods[1], t)
                      [] c = "MA10" -> ma(b, ma_periods[2], t)
                      [] c = "MA20" -> ma(b, ma_periods[3], t)
                      [] c = "MA60" -> ma(b, ma_periods[4], t)
                      [] c = "ROC" -> roc(b, t)
                      [] c = "MOM" -> momentum(b, t)
                      [] c = "VOL_MA5" -> vol_ma(b, vol_ma_periods[1], t)
                      [] c = "VOL_MA10" -> vol_ma(b, vol_ma_periods[2], t)
                      [] c = "VOL_MA20" -> vol_ma(b, vol_ma_periods[3], t)
                      [] c = "VROC" -> vroc(b, t)
                      [] c = "OBV" -> Num(obv(b, t))]],
     dm_plus |-> [t \in 1..Len(b) |-> dm_plus(b, t)],
     dm_minus |-> [t \in 1..Len(b) |-> dm_minus(b, t)]]

(* The bar series: every series of at most MaxShort bars over three price  *)
(* levels, and flat series of MaxBars bars (one more than the longest      *)
(* look-back modelled) whose close and volume step once.                   *)

MaxShort == 3
MaxBars == 13

BarLevels == {10, 11, 12}
Closes == {0, 10, 20}
Volumes == {0, 100, 200}

ShortBars ==
    {x \in [high : BarLevels, low : BarLevels, close : BarLevels, volume : {100}] :
        x.low <= x.high /\ x.close \in {x.low, x.high}}

ShortSeries == UNION {[1..n -> ShortBars] : n \in 0..MaxShort}

FlatBar(c, v) == [high |-> c, low |-> c, close |-> c, volume |-> v]

LongSeries ==
    {[t \in 1..MaxBars |-> IF t <= k THEN FlatBar(c[1], v[1]) ELSE FlatBar(c[2], v[2])] :
        k \in 1..(MaxBars - 1), c \in Closes \X Closes, v \in Volumes \X Volumes}

\* series of one bar more than the longest moving average, whose close
\* steps once
MaxFull == ma_periods[4] + 1
FullSeries ==
    {[t \in 1..MaxFull |-> IF t <= k THEN FlatBar(c[1], 100) ELSE FlatBar(c[2], 100)] :
        k \in 1..(MaxFull - 1), c \in Closes \X Closes}

\* the date column of a series of n bars: ascending days, consecutive or,
\* for the short series, also with gaps
Dates(n) ==
    {[t \in 1..n |-> t]} \cup (IF n <= MaxShort THEN {[t \in 1..n |-> 3 * t]} ELSE {})

(* DataFrame objects.  The heap is the sequence of the objects alive, an   *)
(* object being its date column, its raw bars and the indicator columns    *)
(* assigned to it so far; a variable of the code holds the index of an     *)
(* object.                                                                 *)

NoColumns == <<>>
Object(date, raw, columns) == [date |-> date, raw |-> raw, columns |-> columns]

\* the same object handed back, in place of a copy: stands in for a
\* mutation of Copy
Copy_Alias(heap, id) == [heap |-> heap, id |-> id]

\* indicators.py:18: df.copy(), a new object with the data of the old one
Copy(heap, id) == [heap |-> Append(heap, heap[id]), id |-> Len(heap) + 1]

\* indicators.py:18-34 on the heap: the copy is bound to df, every helper
\* assigns its columns to the object df names, and that object is returned
compute_all_in(heap, id) ==
    LET copied == Copy(heap, id)
        local  == copied.id
        filled == [copied.heap EXCEPT
                     ![local].columns = compute_all(copied.heap[local].raw)]
    IN  [heap |-> filled, id |-> local]

InitBars ==
    /\ bars \in ShortSeries \cup LongSeries \cup FullSeries
    /\ ind = Pending
    /\ df = <<>>
    /\ InitOther
    /\ call \in {[op |-> "compute_all", bars |-> bars, date |-> d] : d \in Dates(Len(bars))}
    /\ pc = 0

\* one call of compute_all on the bars: ind is the object returned, result
\* the object passed in as the call leaves it
ComputeAll ==
    /\ ind = Pending
    /\ LET r   == compute_all_in(<<Object(call.date, bars, NoColumns)>>, 1)
           out == r.heap[r.id]
       IN  /\ ind' = [rows |-> out.columns.rows, dm_plus |-> out.columns.dm_plus,
                      dm_minus |-> out.columns.dm_minus, date |-> out.date,
                      raw |-> out.raw]
           /\ result' = [input |-> r.heap[1]]
    /\ UNCHANGED <<df, votes, voters, reads, outcome, bars, call, pc, disk>>

NextInd == ComputeAll

SpecInd == InitBars /\ [][NextInd]_vars

----------------------------------------------------------------------------
(* Properties of the fusion engine *)

Abs(x) == IF x < 0 THEN -x ELSE x

Returned == outcome = "returned"
Fused == Returned /\ Len(df) >= 2
LastRow == df[Len(df)]
PrevRow == df[Len(df) - 1]

\* C1 as stated: on a series of at least 2 rows the returned score equals
\* the arithmetic mean of the emitted votes (score * 60 * n = 1000 * sum,
\* the score being in thousandths and the votes in sixtieths), and is 0
\* when no vote was emitted.
C1_ScoreIsExactMean ==
    Fused =>
        IF votes = <<>> THEN result.score = 0
        ELSE result.score * VoteScale * Len(votes) = 1000 * SeqSum(votes)

\* C1 amended: the returned score is the arithmetic mean of the emitted
\* votes rounded to three decimals, i.e. it is a multiple of 0.001 within
\* 0.0005 of the mean; zero votes count in the denominator, sub-signals
\* that emit nothing count nowhere, and the score is 0 when no vote was
\* emitted.
C1_ScoreIsRoundedMean ==
    Fused =>
        /\ Len(voters) = Len(votes)
        /\ IF votes = <<>> THEN result.score = 0
           ELSE 2 * Abs(1000 * SeqSum(votes) - result.score * VoteScale * Len(votes))
                    <= VoteScale * Len(votes)

\* three votes, one of them a 0 vote, whose mean is no multiple of 0.001
C1_Witness ==
    /\ Fused
    /\ Len(votes) = 3
    /\ \E i \in 1..3 : votes[i] = 0
    /\ (1000 * SeqSum(votes)) % (VoteScale * 3) # 0

\* the label the fixed thresholds give a score in thousandths
LabelOfScore(s) ==
    IF s >= 600 THEN "strong_buy"
    ELSE IF s >= 200 THEN "buy"
    ELSE IF s > -200 THEN "hold"
    ELSE IF s > -600 THEN "sell"
    ELSE "strong_sell"

\* C2: in every result on at least 2 rows the label is the threshold
\* function of the score carried in that same result.
C2_LabelMatchesReturnedScore == Fused => result.signal = LabelOfScore(result.score)

\* C3: on an empty or 1-row series generate_signals returns the sentinel
\* (label insufficient data, score 0, empty details, empty snapshot), does
\* not raise and reads no column.
C3_SentinelOnShortSeries ==
    (outcome # "pending" /\ Len(df) < 2) =>
        /\ outcome = "returned"
        /\ result.signal = "insufficient_data"
        /\ result.score = 0
        /\ DOMAIN result.details = {}
        /\ DOMAIN result.latest = {}
        /\ reads = {}

C3_Witness == Returned /\ Len(df) = 1 /\ result.signal = "insufficient_data"

\* C4: every returned result carries label, score, details, latest snapshot
\* and price levels.
C4_FiveFields ==
    Returned => {"signal", "score", "details", "latest", "price_levels"} \subseteq DOMAIN result

\* the cells a sub-signal's rule reads
InputsOf(who) ==
    CASE who = "MA" -> {LastRow[MACol(ma_periods[i])] : i \in 1..Len(ma_periods)} \ {NaN}
      [] who = "MA_cross" -> {LastRow["MA5"], LastRow["MA20"], PrevRow["MA5"], PrevRow["MA20"]}
      [] who = "RSI" -> {LastRow["RSI"]}
      [] who = "MACD" -> {LastRow["MACD"], LastRow["MACD_hist"], PrevRow["MACD_hist"]}
      [] who = "ADX" -> {LastRow["ADX"], LastRow["DI_pos"], LastRow["DI_neg"]}
      [] who = "BOLL" -> {LastRow["BOLL_pctB"]}
      [] who = "ROC" -> {LastRow["ROC"]}
      [] who = "Momentum" -> {LastRow["MOM"]}
      [] who = "OBV" -> {LastRow["OBV"]} \cup (IF Len(df) >= 5 THEN {df[Len(df) - 4]["OBV"]} ELSE {})
      [] who = "MFI" -> {LastRow["MFI"]}

\* C5: a sub-signal appends a vote only when every indicator value its
\* rule reads is defined (MA alignment: when some moving average is).
C5_VotesNeedDefinedInputs ==
    Fused =>
        \A i \in 1..Len(voters) :
            /\ InputsOf(voters[i]) # {}
            /\ \A x \in InputsOf(voters[i]) : notna(x)

\* C7: on a series of at least 2 rows generate_signals never raises.
C7_NeverRaises == Len(df) >= 2 => outcome # "raised"

\* the votes a sub-signal cast in this call, and how many
CastBy(who) == {votes[i] : i \in {j \in 1..Len(voters) : voters[j] = who}}
CountBy(who) == Cardinality({j \in 1..Len(voters) : voters[j] = who})

GoldenCross == Le(PrevRow["MA5"], PrevRow["MA20"]) /\ Gt(LastRow["MA5"], LastRow["MA20"])
DeathCross == Ge(PrevRow["MA5"], PrevRow["MA20"]) /\ Lt(LastRow["MA5"], LastRow["MA20"])

\* C8: the crossover sub-signal votes +1 exactly when prev(MA5) <= prev(MA20)
\* and now(MA5) > now(MA20), -1 exactly when prev(MA5) >= prev(MA20) and
\* now(MA5) < now(MA20), and nothing otherwise; the two conditions exclude
\* each other and at most one crossover vote is cast per call.
C8_CrossExactly ==
    Fused =>
        /\ GoldenCross <=> CastBy("MA_cross") = {VoteScale}
        /\ DeathCross <=> CastBy("MA_cross") = {-VoteScale}
        /\ (~GoldenCross /\ ~DeathCross) => CastBy("MA_cross") = {}
        /\ ~(GoldenCross /\ DeathCross)
        /\ CountBy("MA_cross") <= 1

\* a golden cross out of equality on the previous row
C8_Witness ==
    /\ Fused
    /\ notna(PrevRow["MA5"])
    /\ PrevRow["MA5"] = PrevRow["MA20"]
    /\ CastBy("MA_cross") = {VoteScale}

\* the vote the OBV rule casts on the sign of a - b
SlopeVote(a, b) ==
    IF Gt(Sub(a, b), Num(0)) THEN {Vote(1, 2)}
    ELSE IF Lt(Sub(a, b), Num(0)) THEN {Vote(-1, 2)}
    ELSE {}

\* C9 as stated: the OBV vote is the sign of OBV[t] - OBV[t-5] (+0.5, -0.5,
\* none when zero) and is cast only when row t-5 exists.
C9_SlopeOverFiveBars ==
    Fused =>
        CastBy("OBV") = IF Len(df) >= 6
                        THEN SlopeVote(LastRow["OBV"], df[Len(df) - 5]["OBV"])
                        ELSE {}

\* C9 amended: the OBV vote is the sign of OBV[t] - OBV[t-4], the fifth row
\* from the end: +0.5 when positive, -0.5 when negative, none when zero or
\* undefined; the rule is evaluated exactly when the series has 5 rows.
C9_SlopeFromFifthRowFromEnd ==
    Fused =>
        /\ CastBy("OBV") = IF Len(df) >= 5
                           THEN SlopeVote(LastRow["OBV"], df[Len(df) - 4]["OBV"])
                           ELSE {}
        /\ CountBy("OBV") <= 1
        /\ "OBV" \in DOMAIN result.details <=> Len(df) >= 5

\* OBV rose against the fifth row from the end and fell against the sixth
C9_Witness ==
    /\ Fused
    /\ Len(df) >= 6
    /\ Gt(LastRow["OBV"], df[Len(df) - 4]["OBV"])
    /\ Lt(LastRow["OBV"], df[Len(df) - 5]["OBV"])
    /\ CastBy("OBV") = {Vote(1, 2)}

Computed == ind # Pending

\* C6: no division of compute_all with a zero denominator yields an
\* infinity: every cell of every computed column is a number or undefined
\* (compute_all has no raising path in the columns modelled).
C6_NoInfinity ==
    Computed => \A t \in 1..Len(bars) : \A c \in IndCols : ind.rows[t][c].k # "inf"

\* the raw directional movements of bar t, 0 on the first bar
RawPlus(t) ==
    IF t > 1 /\ bars[t].high > bars[t - 1].high THEN bars[t].high - bars[t - 1].high ELSE 0
RawMinus(t) ==
    IF t > 1 /\ bars[t - 1].low > bars[t].low THEN bars[t - 1].low - bars[t].low ELSE 0
Kept(x, keep) == Num(IF keep THEN x ELSE 0)
ShiftedPlus(t) == IF t > 1 THEN ind.dm_plus[t - 1].v ELSE 0
ShiftedMinus(t) == IF t > 1 THEN ind.dm_minus[t - 1].v ELSE 0

\* C10 as stated: on every bar +DM is kept only if it exceeds the -DM of
\* the previous bar (its raw or its filtered value), and -DM only if it
\* exceeds the comparator derived from the previous bar's +DM.
C10_PlusAgainstPreviousBar ==
    Computed =>
        /\ \/ \A t \in 1..Len(bars) :
                ind.dm_plus[t] = Kept(RawPlus(t), RawPlus(t) > RawMinus(t - 1))
           \/ \A t \in 1..Len(bars) :
                ind.dm_plus[t] = Kept(RawPlus(t), RawPlus(t) > ShiftedMinus(t))
        /\ \A t \in 1..Len(bars) :
                ind.dm_minus[t] = Kept(RawMinus(t), RawMinus(t) > ShiftedPlus(t))

\* C10 amended: on every bar +DM is kept only if it exceeds the raw -DM of
\* the same bar, and -DM only if it exceeds the filtered +DM of the
\* previous bar (0 on the first bar); each is zeroed otherwise.
C10_PlusAgainstSameBar ==
    Computed =>
        \A t \in 1..Len(bars) :
            /\ ind.dm_plus[t] = Kept(RawPlus(t), RawPlus(t) > RawMinus(t))
            /\ ind.dm_minus[t] = Kept(RawMinus(t), RawMinus(t) > ShiftedPlus(t))

\* a +DM kept although it does not exceed the previous bar's -DM
C10_Witness ==
    /\ Computed
    /\ \E t \in 2..Len(bars) :
         /\ RawPlus(t) > RawMinus(t)
         /\ RawPlus(t) <= RawMinus(t - 1)
         /\ ind.dm_plus[t] = Num(RawPlus(t))

----------------------------------------------------------------------------
(* data/news.py: fetch_news.  A title is a sequence of characters; the url *)
(* and time of an entry are carried through unexamined and are left out.   *)
(* What a call returns is [raised |-> FALSE, value |-> v] or, when an      *)
(* exception leaves it, [raised |-> TRUE, exc |-> e].                      *)

Return(v) == [raised |-> FALSE, value |-> v]
Raise(e) == [raised |-> TRUE, exc |-> e]

NEWS_PER_SOURCE == 5
TitleKeyLen == 60
TweetTitleLen == 200
TWITTER_BEARER_TOKEN == "AAAA"

XLabel == "X (Twitter)"
Sites == <<"Bloomberg", "WSJ", "Financial Times", "Investing.com">>
Labels == {XLabel} \cup {Sites[i] : i \in 1..Len(Sites)}

\* s[:n]
Prefix(s, n) == SubSeq(s, 1, IF Len(s) < n THEN Len(s) ELSE n)

Entry(title, source) == [title |-> title, source |-> source]

\* the title both handlers give to the entry that stands for a failure
FailureTitle(site, e) == <<"[", site, "failed", e, "]">>

\* requests.get(...) followed by raise_for_status(): a connection error, a
\* timeout or an HTTP error status raises, otherwise the body is at hand
Get(resp) ==
    IF resp.kind \in {"network", "timeout", "http"} THEN Raise(resp.kind)
    ELSE Return([parses |-> resp.kind = "items", items |-> resp.body])

RECURSIVE ParsedItems(_, _, _)
ParsedItems(items, default_source, i) ==
    IF i > Len(items) THEN <<>>
    ELSE LET title  == items[i].title
             source == IF items[i].source # "" THEN items[i].source ELSE default_source
         IN  (IF title # <<>> THEN <<Entry(title, source)>> ELSE <<>>)
             \o ParsedItems(items, default_source, i + 1)

\* news.py:118-147: a body that is not XML raises ET.ParseError inside the
\* try, which is passed over, and the empty list is returned
_parse_rss(body, default_source, max_items) ==
    IF ~body.parses THEN Return(<<>>)
    ELSE Return(ParsedItems(Prefix(body.items, max_items), default_source, 1))

\* news.py:99-113
_search_via_google_news(resp, site) ==
    LET r == Get(resp)
    IN  IF r.raised THEN Return(<<Entry(FailureTitle(site, r.exc), site)>>)
        ELSE LET parsed == _parse_rss(r.value, site, NEWS_PER_SOURCE)
             IN  IF parsed.raised
                 THEN Return(<<Entry(FailureTitle(site, parsed.exc), site)>>)
                 ELSE parsed

\* news.py:66-96: r.json() raises on a body that is not JSON, inside the try
_search_x(resp) ==
    IF TWITTER_BEARER_TOKEN = ""
    THEN Return(<<Entry(<<"[", XLabel, "not enabled", "]">>, XLabel)>>)
    ELSE LET r    == Get(resp)
             data == IF r.raised THEN r
                     ELSE IF ~r.value.parses THEN Raise("unparseable")
                     ELSE Return(r.value.items)
         IN  IF data.raised
             THEN Return(<<Entry(FailureTitle(XLabel, data.exc), XLabel)>>)
             ELSE Return([i \in 1..Len(data.value) |->
                            Entry(Prefix(data.value[i].title, TweetTitleLen), XLabel)])

\* news.py:54-59: of the entries whose titles agree on their first 60
\* characters only the first is kept
RECURSIVE Dedup(_, _, _)
Dedup(items, seen, i) ==
    IF i > Len(items) THEN <<>>
    ELSE LET key == Prefix(items[i].title, TitleKeyLen)
         IN  IF key \in seen THEN Dedup(items, seen, i + 1)
             ELSE <<items[i]>> \o Dedup(items, seen \cup {key}, i + 1)

\* results += f(...): an exception leaving f leaves fetch_news
Extend(acc, r) ==
    IF acc.raised THEN acc
    ELSE IF r.raised THEN r
    ELSE Return(acc.value \o r.value)

RECURSIVE SearchSites(_, _, _)
SearchSites(net, acc, i) ==
    IF i > Len(Sites) THEN acc
    ELSE SearchSites(net, Extend(acc, _search_via_google_news(net[Sites[i]], Sites[i])), i + 1)

\* news.py:32-61
fetch_news(net) ==
    LET results == SearchSites(net, Extend(Return(<<>>), _search_x(net[XLabel])), 1)
    IN  IF results.raised THEN results
        ELSE Return(Dedup(results.value, {}, 1))

\* the responses of a source: the three failures of the request, a body
\* that cannot be parsed, and bodies of items (one without a title, two
\* whose titles differ only after the 60th character, one with more items
\* than NEWS_PER_SOURCE)
Item(title) == [title |-> title, source |-> ""]
TitleA == <<"a">>
TitleB == <<"b">>
LongTitle(last) == [i \in 1..(TitleKeyLen + 1) |-> IF i > TitleKeyLen THEN last ELSE "c"]
ManyItems == [i \in 1..(NEWS_PER_SOURCE + 1) |-> Item([j \in 1..i |-> "m"])]
Bodies ==
    { <<>>, <<Item(TitleA)>>, <<Item(LongTitle("x"))>>, <<Item(LongTitle("y"))>>,
      <<Item(<<>>), [title |-> TitleB, source |-> "Reuters"]>>, ManyItems }
Responses ==
    {[kind |-> k, body |-> <<>>] : k \in {"network", "timeout", "http", "unparseable"}}
        \cup {[kind |-> "items", body |-> b] : b \in Bodies}
Networks == [Labels -> Responses]

InitNews ==
    /\ call \in {[op |-> "fetch_news", net |-> n] : n \in Networks}
    /\ pc = 0
    /\ df = <<>>
    /\ InitOther
    /\ InitInd

FetchNews ==
    /\ call.op = "fetch_news"
    /\ outcome = "pending"
    /\ LET r == fetch_news(call.net)
       IN  /\ outcome' = IF r.raised THEN "raised" ELSE "returned"
           /\ result' = r
    /\ UNCHANGED <<df, votes, voters, reads, bars, ind, call, pc, disk>>

NextNews == FetchNews

SpecNews == InitNews /\ [][NextNews]_vars

----------------------------------------------------------------------------
(* analysis/anomaly.py: check_anomaly.  A raw series is [missing, rows],   *)
(* missing standing for the argument None; a row is [date, close], the     *)
(* close a cell.  The threshold is kept in hundredths (0.05 is 5), the     *)
(* returned change_pct in hundredths of a percent, the precision of        *)
(* round(change_pct * 100, 2).  symbol, name and market are copied into    *)
(* the record unexamined and are left out.                                 *)

ANOMALY_THRESHOLD == 5
ThresholdScale == 100

NoFrame == [missing |-> TRUE, rows |-> <<>>]
Frame(rows) == [missing |-> FALSE, rows |-> rows]

\* what check_anomaly hands back: the value returned (None or a record),
\* the divisors of the divisions it made on the way, and the trace of the
\* call: the threshold test passing and each invocation of fetch_news
Done(v, divisors) == [raised |-> FALSE, value |-> v, divisors |-> divisors, trace |-> <<>>]

\* the lookup made twice: stands in for a mutation of NewsLookup
NewsLookup_Twice(trace, net) ==
    [trace |-> trace \o <<"fetch_news", "fetch_news">>, news |-> fetch_news(net)]

\* anomaly.py:42: one invocation of fetch_news
NewsLookup(trace, net) == [trace |-> Append(trace, "fetch_news"), news |-> fetch_news(net)]

\* the guard stands in for a mutation of PrevUnusable: only an undefined
\* previous close is refused
PrevUnusable_OnlyUndefined(prev) == ~notna(prev.close)

\* anomaly.py:32
PrevUnusable(prev) == ~notna(prev.close) \/ prev.close = Num(0)

\* x - y and x / y on float cells without infinities
Minus(x, y) == IF notna(x) /\ notna(y) THEN Num(x.v - y.v) ELSE NaN
TrueDivide(x, y) == IF notna(x) /\ notna(y) THEN Divide(x.v, 1, y.v) ELSE NaN

\* abs(x) < threshold on a quotient, an infinity or NaN
AbsBelow(x, threshold) ==
    /\ x.k = "num"
    /\ Abs(x.v) * ThresholdScale < threshold * x.d

Positive(x) == (x.k = "num" /\ x.v > 0) \/ x = PosInf

\* round(x * 100, 2), in hundredths
RoundPct(x) ==
    IF x.k = "num" THEN Num(RoundDiv(x.v * 10000, x.d)) ELSE x

\* anomaly.py:26-54
check_anomaly(d, threshold, net) ==
    IF d.missing \/ Len(d.rows) < 2 THEN Done(None, {})
    ELSE LET latest == d.rows[Len(d.rows)]
             prev   == d.rows[Len(d.rows) - 1]
         IN  IF PrevUnusable(prev) THEN Done(None, {})
             ELSE LET change_pct == TrueDivide(Minus(latest.close, prev.close), prev.close)
                      divisors   == {prev.close}
                  IN  IF AbsBelow(change_pct, threshold) THEN Done(None, divisors)
                      ELSE LET direction == IF Positive(change_pct) THEN "surge" ELSE "plunge"
                               lookup    == NewsLookup(<<"threshold_passed">>, net)
                               news      == lookup.news
                           IN  IF news.raised
                               THEN [raised |-> TRUE, exc |-> news.exc,
                                     divisors |-> divisors, trace |-> lookup.trace]
                               ELSE [Done([k          |-> "record",
                                           date       |-> latest.date,
                                           close      |-> latest.close,
                                           prev_close |-> prev.close,
                                           change_pct |-> RoundPct(change_pct),
                                           direction  |-> direction,
                                           news       |-> news.value], divisors)
                                       EXCEPT !.trace = lookup.trace]

\* the series checked: none, every length from 0 to 3, the two last closes
\* drawn from values around the default threshold, 0 and undefined
PrevCloses == {NaN, Num(0), Num(100), Num(-100), Num(3)}
LastCloses == {NaN, Num(0), Num(94), Num(95), Num(100), Num(103), Num(105), Num(106), Num(4)}
Thresholds == {0, ANOMALY_THRESHOLD, 6, 100}
Bar(t, c) == [date |-> t, close |-> c]
AnomalyFrames ==
    {NoFrame, Frame(<<>>)}
        \cup {Frame(<<Bar(1, c)>>) : c \in LastCloses}
        \cup {Frame(<<Bar(1, p), Bar(2, c)>>) : p \in PrevCloses, c \in LastCloses}
        \cup {Frame(<<Bar(1, x), Bar(2, p), Bar(3, c)>>) :
                 x \in {Num(0), Num(50)}, p \in PrevCloses, c \in LastCloses}
AnomalyNetworks ==
    {[l \in Labels |-> r] :
        r \in {[kind |-> "timeout", body |-> <<>>], [kind |-> "items", body |-> <<Item(TitleA)>>]}}

InitAnomaly ==
    /\ call \in {[op |-> "check_anomaly", df |-> d, threshold |-> th, net |-> n] :
                    d \in AnomalyFrames, th \in Thresholds, n \in AnomalyNetworks}
    /\ pc = 0
    /\ df = <<>>
    /\ InitOther
    /\ InitInd

CheckAnomaly ==
    /\ call.op = "check_anomaly"
    /\ outcome = "pending"
    /\ LET r == check_anomaly(call.df, call.threshold, call.net)
       IN  /\ outcome' = IF r.raised THEN "raised" ELSE "returned"
           /\ result' = r
           /\ reads' = r.divisors
    /\ UNCHANGED <<df, votes, voters, bars, ind, call, pc, disk>>

NextAnomaly == CheckAnomaly

SpecAnomaly == InitAnomaly /\ [][NextAnomaly]_vars

(* Properties of check_anomaly *)

Checked == call.op = "check_anomaly" /\ outcome # "pending"
HasTwoBars == ~call.df.missing /\ Len(call.df.rows) >= 2
LastClose == call.df.rows[Len(call.df.rows)].close
PrevClose == call.df.rows[Len(call.df.rows) - 1].close
Flagged == outcome = "returned" /\ result.value # None
Absent == outcome = "returned" /\ result.value = None

\* the sign of (last - prev) / prev
ChangeSign == Sign(LastClose.v - PrevClose.v) * Sign(PrevClose.v)

\* C11 as stated: with at least 2 bars, a defined last close, a defined
\* non-zero previous close and a non-negative threshold, check_anomaly
\* returns a record exactly when |last - prev| / |prev| >= threshold and
\* absent otherwise; the record's direction is surge exactly when the change
\* is positive and plunge exactly when it is negative, and its change_pct is
\* the change in percent (to the two decimals the record keeps).
C11_DirectionFollowsSign ==
    (Checked /\ HasTwoBars /\ notna(LastClose) /\ notna(PrevClose)
        /\ PrevClose.v # 0 /\ call.threshold >= 0) =>
        /\ outcome = "returned"
        /\ Flagged <=> Abs(LastClose.v - PrevClose.v) * ThresholdScale
                           >= call.threshold * Abs(PrevClose.v)
        /\ Flagged =>
            /\ result.value.direction = "surge" <=> ChangeSign > 0
            /\ result.value.direction = "plunge" <=> ChangeSign < 0
            /\ result.value.change_pct =
                   Num(RoundDiv(ChangeSign * Abs(LastClose.v - PrevClose.v) * 10000,
                                Abs(PrevClose.v)))

\* C12: check_anomaly returns absent, without raising and without dividing,
\* whenever the series is missing, has fewer than 2 bars, or its previous
\* close is undefined or 0.
C12_AbsentWithoutDividing ==
    (Checked /\ (~HasTwoBars \/ ~notna(PrevClose) \/ PrevClose = Num(0))) =>
        /\ Absent
        /\ reads = {}

\* a previous close of 0 under a last close that differs from it
C12_Witness ==
    /\ Checked
    /\ HasTwoBars
    /\ PrevClose = Num(0)
    /\ LastClose = Num(106)
    /\ Absent

(* Properties of fetch_news *)

Fetched == call.op = "fetch_news" /\ outcome # "pending"
Failed(l) == call.net[l].kind # "items"

\* the entries a source that answered has to offer: its first
\* NEWS_PER_SOURCE items, those without a title left aside
Offered(l) ==
    LET items == Prefix(call.net[l].body, NEWS_PER_SOURCE)
    IN  {items[i].title : i \in {j \in 1..Len(items) : items[j].title # <<>>}}

HasPlaceholder(l) ==
    \E i \in 1..Len(result.value) :
        /\ result.value[i].source = l
        /\ result.value[i].title = FailureTitle(l, call.net[l].kind)

\* a title is carried by the result, if need be by the first entry that
\* shares its first 60 characters
Carried(title) ==
    \E i \in 1..Len(result.value) :
        Prefix(result.value[i].title, TitleKeyLen) = Prefix(title, TitleKeyLen)

\* C13 as stated: fetch_news never raises, whichever of its five sources
\* fail and however (network error, timeout, HTTP error status, unparseable
\* body); every failing source contributes a placeholder entry describing
\* its failure, and the entries of the sources that succeeded are returned.
C13_PlaceholderPerFailingSource ==
    Fetched =>
        /\ outcome = "returned"
        /\ \A l \in Labels : Failed(l) => HasPlaceholder(l)
        /\ \A l \in Labels : ~Failed(l) => \A title \in Offered(l) : Carried(title)

----------------------------------------------------------------------------
(* main.py: run_once, and web.py: analyze_all.  The batch loops, one step  *)
(* per instrument (pc is the number of instruments handled), then the      *)
(* report.  What happens to an instrument inside _process_stock (fetching, *)
(* the stored history, the analysis) is given by the world of the call:    *)
(* world[i] is [fetch, bars, analysis] for the i-th entry of the           *)
(* watchlist.                                                              *)

MaxWatch == 3

ErrorEntry(symbol, name, market, e) ==
    [symbol |-> symbol, name |-> name, market |-> market, error |-> e]

\* main.py:51-95 and web.py:33-77 (which adds the chart fields): the
\* fetcher may raise; a stored history of fewer than 2 bars is answered
\* with an error entry; compute_all, generate_signals or check_anomaly may
\* raise
_process_stock(symbol, market, name, w) ==
    IF w.fetch = "raises" THEN Raise("fetch failed")
    ELSE IF w.bars < 2 THEN Return(ErrorEntry(symbol, name, market, "insufficient history"))
    ELSE IF w.analysis = "raises" THEN Raise("analysis failed")
    ELSE Return([symbol |-> symbol, name |-> name, market |-> market,
                 signal |-> w.analysis])

\* the loop body without its try: stands in for a mutation of Guarded
Guarded_NoTry(r, symbol, name, market) == r

\* main.py:32-39, web.py:385-388: try ... except Exception as e
Guarded(r, symbol, name, market) ==
    IF r.raised THEN Return(ErrorEntry(symbol, name, market, r.exc)) ELSE r

\* stock.get("name", symbol)
NameOf(stock) == IF stock.named THEN stock.name ELSE stock.symbol

Stocks ==
    { [symbol |-> "ASTS", market |-> "US", named |-> TRUE, name |-> "AST SpaceMobile"],
      [symbol |-> "00100", market |-> "HK", named |-> FALSE, name |-> ""] }
Worlds ==
    { [fetch |-> "raises", bars |-> 0, analysis |-> "buy"],
      [fetch |-> "ok", bars |-> 0, analysis |-> "buy"],
      [fetch |-> "ok", bars |-> 1, analysis |-> "buy"],
      [fetch |-> "ok", bars |-> 2, analysis |-> "raises"],
      [fetch |-> "ok", bars |-> 2, analysis |-> "buy"] }
Watchlists == UNION {[1..n -> Stocks] : n \in 0..MaxWatch}

InitBatch ==
    /\ call \in {[op |-> o, watchlist |-> wl, world |-> w, report |-> rp] :
                    o \in {"run_once", "analyze_all"}, wl \in Watchlists,
                    w \in UNION {[1..n -> Worlds] : n \in 0..MaxWatch},
                    rp \in {"ok", "raises"}}
    /\ Len(call.world) = Len(call.watchlist)
    /\ pc = 0
    /\ result = [results |-> <<>>]
    /\ outcome = "pending"
    /\ votes = <<>> /\ voters = <<>> /\ reads = {}
    /\ df = <<>>
    /\ InitInd
    /\ disk = NoDisk

IsBatch == call.op \in {"run_once", "analyze_all"}

\* one turn of the loop: main.py:26-41, web.py:381-389
ProcessNext ==
    /\ IsBatch
    /\ outcome = "pending"
    /\ pc < Len(call.watchlist)
    /\ LET stock  == call.watchlist[pc + 1]
           symbol == stock.symbol
           market == stock.market
           name   == NameOf(stock)
           r      == Guarded(_process_stock(symbol, market, name, call.world[pc + 1]),
                             symbol, name, market)
       IN  IF r.raised
           THEN /\ outcome' = "raised"
                /\ UNCHANGED <<result, pc>>
           ELSE /\ result' = [results |-> Append(result.results, r.value)]
                /\ pc' = pc + 1
                /\ UNCHANGED outcome
    /\ UNCHANGED <<df, votes, voters, reads, bars, ind, call, disk>>

\* after the loop.  main.py:43-47: the report is built, printed and saved,
\* and what raises there leaves run_once.  web.py:391-401: the report is
\* saved inside try ... except Exception: pass, and the results are stored
\* in the session
Report ==
    /\ IsBatch
    /\ outcome = "pending"
    /\ pc = Len(call.watchlist)
    /\ outcome' = IF call.op = "run_once" /\ call.report = "raises"
                  THEN "raised" ELSE "returned"
    /\ result' = [results |-> result.results, reported |-> result.results]
    /\ UNCHANGED <<df, votes, voters, reads, bars, ind, call, pc, disk>>

NextBatch == ProcessNext \/ Report

SpecBatch == InitBatch /\ [][NextBatch]_vars

(* Properties of the batch loops *)

HasError(entry) == "error" \in DOMAIN entry
Fails(i) == call.world[i].fetch = "raises" \/ call.world[i].analysis = "raises"

\* C14: the result list has exactly one entry per instrument, in watchlist
\* order: after pc turns it holds the entries of the first pc instruments,
\* an instrument whose processing raised has an error entry carrying the
\* exception and no other entry is touched by it, and the loop ends only
\* when every instrument has its entry.
C14_OneEntryPerInstrument ==
    IsBatch =>
        /\ Len(result.results) = pc
        /\ outcome # "pending" => pc = Len(call.watchlist)
        /\ \A i \in 1..pc :
            /\ result.results[i].symbol = call.watchlist[i].symbol
            /\ result.results[i].market = call.watchlist[i].market
            /\ Fails(i) => /\ HasError(result.results[i])
                           /\ result.results[i].error \in {"fetch failed", "analysis failed"}
            /\ (~Fails(i) /\ call.world[i].bars >= 2) => ~HasError(result.results[i])

\* the first instrument raised, and the loop went on to the last one
C14_Witness ==
    /\ IsBatch
    /\ outcome = "returned"
    /\ Len(call.watchlist) = MaxWatch
    /\ Fails(1)
    /\ ~Fails(MaxWatch)
    /\ call.world[MaxWatch].bars >= 2
    /\ ~HasError(result.results[MaxWatch])

----------------------------------------------------------------------------
(* analysis/indicators.py: _rsi and _mfi, the two steps of compute_all     *)
(* whose columns are oscillators.  Each reads only the raw columns of the  *)
(* series, so it is run here on the raw bars.                              *)
(*                                                                         *)
(* _rsi.  ewm(com = n - 1, min_periods = n).mean() weighs row i of a       *)
(* series, seen from row t, by (13/14)^(t-i); avg_gain and avg_loss share  *)
(* their denominator, so rs is the quotient of the two weighted sums.      *)
(* With s and e the first and the last row up to t on which the close      *)
(* moved, the weights 13^(e-i) * 14^(i-s) give the same quotient in        *)
(* integers.                                                               *)
(*                                                                         *)
(* _mfi.  rolling(n).sum() is computed by pandas in one pass over the      *)
(* column: the value that leaves the window is subtracted from the running *)
(* sum and the one that enters is added, in double precision.  Three       *)
(* builds differ in how: "plain" (before pandas 1.2) adds and subtracts,   *)
(* "kahan" (from 1.2) carries a compensation term for the additions and    *)
(* one for the removals, "kahan_same" (from 1.5) also returns value * nobs *)
(* when the last nobs values are equal.  A double is kept exactly, as the  *)
(* pair [h, s] for h * 2^57 + s with |s| far below 2^57.                   *)

rsi_period == 14
mfi_period == 14

RECURSIVE Power(_, _)
Power(a, n) == IF n = 0 THEN 1 ELSE a * Power(a, n - 1)

RECURSIVE WeightedSum(_, _, _, _)
WeightedSum(x, s, e, i) ==
    IF i > e THEN 0
    ELSE Power(rsi_period - 1, e - i) * Power(rsi_period, i - s) * x[i]
             + WeightedSum(x, s, e, i + 1)

Least(S) == CHOOSE x \in S : \A y \in S : x <= y
Greatest(S) == CHOOSE x \in S : \A y \in S : x >= y

\* indicators.py:59-61: delta.clip(lower=0) and -delta.clip(upper=0), i > 1
Gain(b, i) == IF b[i].close - b[i - 1].close > 0 THEN b[i].close - b[i - 1].close ELSE 0
Loss(b, i) == IF b[i].close - b[i - 1].close < 0 THEN b[i - 1].close - b[i].close ELSE 0

\* indicators.py:57-66, at row t.  The first difference is undefined, so
\* the 14 observations of min_periods are there from row 15 on; an
\* avg_loss of 0 is replaced by NaN
rsi(b, t) ==
    LET moves == {i \in 2..t : b[i].close # b[i - 1].close}
    IN  IF t < rsi_period + 1 \/ moves = {} THEN NaN
        ELSE LET s == Least(moves)
                 e == Greatest(moves)
                 g == WeightedSum([i \in 1..t |-> IF i > 1 THEN Gain(b, i) ELSE 0], s, e, s)
                 l == WeightedSum([i \in 1..t |-> IF i > 1 THEN Loss(b, i) ELSE 0], s, e, s)
             IN  IF l = 0 THEN NaN ELSE Ratio(100 * g, g + l)

(* Doubles as pairs *)

Big(h, s) == [k |-> "num", h |-> h, s |-> s]
BigZero == Big(0, 0)

RECURSIVE FloorLog2(_)
FloorLog2(h) == IF h < 2 THEN 0 ELSE 1 + FloorLog2(h \div 2)

\* h * 2^57 + s rounded to the nearest double, ties to even: a double of
\* [2^(57+k), 2^(58+k)) is a multiple of 32 * 2^k, and one just below
\* 2^(57+k) a multiple of half of that; below 2^53 every integer is one
RECURSIVE BigRound(_, _)
BigRound(h, s) ==
    IF h = 0 THEN Big(0, s)
    ELSE IF h < 0 THEN LET r == BigRound(-h, -s) IN Big(-r.h, -r.s)
    ELSE LET k   == FloorLog2(h)
             ulp == IF h = Power(2, k) /\ s < 0 THEN 16 * Power(2, k) ELSE 32 * Power(2, k)
         IN  Big(h, ulp * RoundDiv(s, ulp))

BigAdd(x, y) == BigRound(x.h + y.h, x.s + y.s)
BigSub(x, y) == BigRound(x.h - y.h, x.s - y.s)
BigNeg(x) == Big(-x.h, -x.s)
BigTimes(n, x) == BigRound(n * x.h, n * x.s)
BigSign(x) == IF x.h # 0 THEN Sign(x.h) ELSE Sign(x.s)

RollBuilds == {"plain", "kahan", "kahan_same"}

\* add_sum and remove_sum of pandas' window aggregations: st is the
\* running sum with the compensation of the additions and of the removals
AddSum(st, val, build) ==
    IF build = "plain" THEN [st EXCEPT !.sum = BigAdd(st.sum, val)]
    ELSE LET y == BigSub(val, st.ca)
             t == BigAdd(st.sum, y)
         IN  [st EXCEPT !.sum = t, !.ca = BigSub(BigSub(t, st.sum), y)]

RemoveSum(st, val, build) ==
    IF build = "plain" THEN [st EXCEPT !.sum = BigSub(st.sum, val)]
    ELSE LET y == BigSub(BigNeg(val), st.cr)
             t == BigAdd(st.sum, y)
         IN  [st EXCEPT !.sum = t, !.cr = BigSub(BigSub(t, st.sum), y)]

\* x.rolling(n).sum() from row i on, x without undefined values: the row
\* leaving the window is removed, row i added; run counts the equal values
\* that end at row i
RECURSIVE RollFrom(_, _, _, _, _)
RollFrom(x, n, build, i, st) ==
    IF i > Len(x) THEN <<>>
    ELSE LET removed == IF i > n THEN RemoveSum(st, x[i - n], build) ELSE st
             added   == AddSum(removed, x[i], build)
             run     == IF i > 1 /\ x[i] = x[i - 1] THEN st.run + 1 ELSE 1
             out     == IF i < n THEN NaN
                        ELSE IF build = "kahan_same" /\ run >= n THEN BigTimes(n, x[i])
                        ELSE added.sum
         IN  <<out>> \o RollFrom(x, n, build, i + 1, [added EXCEPT !.run = run])

rolling_sum(x, n, build) ==
    RollFrom(x, n, build, 1, [sum |-> BigZero, ca |-> BigZero, cr |-> BigZero, run |-> 0])

\* (high + low + close) / 3 on bars whose three prices sum to a multiple of
\* 3, where the double is the integer
typical_price(b, t) == (b[t].high + b[t].low + b[t].close) \div 3

\* the number 100 - 100 / (1 + p / q), which is 100 p / (p + q), of two
\* doubles p and q, q not 0: numerator and denominator are kept as pairs
\* without rounding; 1 + p / q = 0 makes the division 100 / 0, an infinity.
\* The roundings of these four operations are left out: on the series of
\* this module they move no value across 0 or 100
Oscillator(pp, q) ==
    IF pp.h + q.h = 0 /\ pp.s + q.s = 0 THEN NegInf
    ELSE [k |-> "num", n |-> Big(100 * pp.h, 100 * pp.s), d |-> Big(pp.h + q.h, pp.s + q.s)]

\* indicators.py:143-153: the MFI column; a neg_sum of 0 is replaced by NaN
_mfi(b, build) ==
    LET raw_mf == [t \in 1..Len(b) |-> BigTimes(typical_price(b, t), b[t].volume)]
        pos_mf == [t \in 1..Len(b) |->
                     IF t > 1 /\ typical_price(b, t) > typical_price(b, t - 1)
                     THEN raw_mf[t] ELSE BigZero]
        neg_mf == [t \in 1..Len(b) |->
                     IF t > 1 /\ typical_price(b, t) < typical_price(b, t - 1)
                     THEN raw_mf[t] ELSE BigZero]
        pos_sum == rolling_sum(pos_mf, mfi_period, build)
        neg_sum == rolling_sum(neg_mf, mfi_period, build)
    IN  [t \in 1..Len(b) |->
            IF ~notna(pos_sum[t]) \/ ~notna(neg_sum[t]) \/ neg_sum[t] = BigZero THEN NaN
            ELSE Oscillator(pos_sum[t], neg_sum[t])]

(* The series of the two steps.  For _rsi: a flat run of closes followed   *)
(* by at most MaxShort free closes, 14 to 14 + MaxShort bars in all.  For  *)
(* _mfi: 19 bars at one price and without volume, except on five rows,     *)
(* where the price may halve or double under a volume; on the first three  *)
(* of them a falling price may come with a volume near 2^57.               *)

RSILevels == {9, 10, 12}
RSISeries ==
    {[t \in 1..(rsi_period + m) |->
         FlatBar(IF t <= rsi_period THEN 10 ELSE tail[t - rsi_period], 100)] :
        m \in 0..MaxShort, tail \in [1..MaxShort -> RSILevels]}

Event(move, volume) == [move |-> move, volume |-> volume]
Quiet == Event(0, BigZero)
EarlyEvents ==
    {Quiet, Event(-1, Big(1, 0)), Event(-1, Big(1, 32)), Event(-1, Big(4, 0)),
     Event(-1, Big(0, 3)), Event(1, Big(0, 3))}
LateEvents ==
    {Quiet, Event(-1, Big(0, 1)), Event(-1, Big(0, 100)), Event(1, Big(0, 1)),
     Event(1, Big(0, 3))}
EventRows == <<2, 3, 5, 11, 13>>
FlowLen == mfi_period + Len(EventRows)
StartPrice == Power(2, Len(EventRows))

EventAt(ev, t) ==
    IF \E j \in 1..Len(EventRows) : EventRows[j] = t
    THEN ev[CHOOSE j \in 1..Len(EventRows) : EventRows[j] = t]
    ELSE Quiet

RECURSIVE PriceAt(_, _)
PriceAt(ev, t) ==
    IF t = 0 THEN StartPrice
    ELSE LET before == PriceAt(ev, t - 1)
             move   == EventAt(ev, t).move
         IN  IF move > 0 THEN 2 * before ELSE IF move < 0 THEN before \div 2 ELSE before

FlowSeries ==
    {[t \in 1..FlowLen |-> FlatBar(PriceAt(ev, t), EventAt(ev, t).volume)] :
        ev \in EarlyEvents \X EarlyEvents \X EarlyEvents \X LateEvents \X LateEvents}

InitOsc ==
    /\ \/ /\ bars \in RSISeries
          /\ call = [op |-> "_rsi"]
       \/ /\ bars \in FlowSeries
          /\ call = [op |-> "_mfi"]
    /\ ind = Pending
    /\ df = <<>>
    /\ pc = 0
    /\ InitOther

ComputeRSI ==
    /\ call.op = "_rsi"
    /\ ind = Pending
    /\ ind' = [column |-> [t \in 1..Len(bars) |-> rsi(bars, t)], build |-> "any"]
    /\ UNCHANGED <<df, votes, voters, reads, result, outcome, bars, call, pc, disk>>

ComputeMFI ==
    /\ call.op = "_mfi"
    /\ ind = Pending
    /\ \E build \in RollBuilds : ind' = [column |-> _mfi(bars, build), build |-> build]
    /\ UNCHANGED <<df, votes, voters, reads, result, outcome, bars, call, pc, disk>>

NextOsc == ComputeRSI \/ ComputeMFI

SpecOsc == InitOsc /\ [][NextOsc]_vars

(* Properties of the oscillators *)

\* 0 <= x <= 100 for a cell that is a quotient of integers, a quotient of
\* pairs or an infinity
WithinRange(x) ==
    /\ x.k = "num"
    /\ IF "n" \in DOMAIN x
       THEN LET sd == BigSign(x.d)
                sn == BigSign(x.n)
                over == BigSign(Big(x.n.h - 100 * x.d.h, x.n.s - 100 * x.d.s))
            IN  (sd > 0 /\ sn >= 0 /\ over <= 0) \/ (sd < 0 /\ sn <= 0 /\ over >= 0)
       ELSE 0 <= x.v /\ x.v <= 100 * x.d

OscComputed == call.op \in {"_rsi", "_mfi"} /\ ind # Pending

\* C18 as stated: on every row where RSI or MFI is defined, for a series of
\* non-negative prices and volumes, the value lies in [0, 100].
C18_OscillatorsWithinRange ==
    OscComputed =>
        \A t \in 1..Len(bars) : notna(ind.column[t]) => WithinRange(ind.column[t])

----------------------------------------------------------------------------
(* Properties of the indicator pipeline: moving averages, shape, OBV *)

\* C15: for a series with defined closes and every configured period p,
\* MA_p is undefined on rows 0 .. p-2 and defined from row p-1 on (rows
\* counted from 0; row t of the model is row t-1 of the code), where it is
\* the mean of the p closes ending at that row.
C15_MovingAverageWarmup ==
    Computed =>
        \A i \in 1..Len(ma_periods) :
            LET p == ma_periods[i] IN
            \A t \in 1..Len(bars) :
                LET cell == ind.rows[t][MACol(p)] IN
                /\ t - 1 <= p - 2 => ~notna(cell)
                /\ t - 1 >= p - 1 =>
                      /\ cell.k = "num"
                      /\ cell.v * p = cell.d * SumOver(Column(bars, "close"), t - p + 1, t)

\* MA60 just defined on a series whose close stepped inside the window, and
\* MA5 first defined on row 4
C15_Witness ==
    /\ Computed
    /\ Len(bars) = MaxFull
    /\ bars[MaxFull].close # bars[MaxFull - 1].close
    /\ ~notna(ind.rows[ma_periods[4] - 1]["MA60"])
    /\ notna(ind.rows[ma_periods[4]]["MA60"])
    /\ ~notna(ind.rows[4]["MA5"])
    /\ notna(ind.rows[5]["MA5"])

\* C16: compute_all returns a series of exactly n rows whose date column is
\* the input's, in the same order, and leaves the object passed in as it
\* was: no column added, no value altered (n = 0 and n = 1 included).
C16_SameRowsInputUntouched ==
    Computed =>
        /\ Len(ind.rows) = Len(call.bars)
        /\ ind.date = call.date
        /\ ind.raw = call.bars
        /\ result.input = Object(call.date, call.bars, NoColumns)

\* a series of one bar, dated with a gap, went through
C16_Witness ==
    /\ Computed
    /\ Len(call.bars) = 1
    /\ call.date = <<3>>
    /\ Len(ind.rows) = 1
    /\ result.input.columns = NoColumns

\* C17: with defined closes and volumes OBV is defined on every row, is 0
\* on the first row, and on every later row t is
\* OBV[t-1] + sign(close[t] - close[t-1]) * volume[t].
C17_OBVRecurrence ==
    Computed =>
        \A t \in 1..Len(bars) :
            /\ ind.rows[t]["OBV"].k = "num"
            /\ t = 1 => ind.rows[t]["OBV"].v = 0
            /\ t > 1 => ind.rows[t]["OBV"].v =
                          ind.rows[t - 1]["OBV"].v
                              + Sign(bars[t].close - bars[t - 1].close) * bars[t].volume

\* a rise and a fall of the close, each moving OBV by the bar's volume
C17_Witness ==
    /\ Computed
    /\ Len(bars) = 3
    /\ bars[2].close > bars[1].close
    /\ bars[3].close < bars[2].close
    /\ ind.rows[1]["OBV"].v = 0
    /\ ind.rows[2]["OBV"].v = bars[2].volume
    /\ ind.rows[3]["OBV"].v = bars[2].volume - bars[3].volume

----------------------------------------------------------------------------
(* Properties of the MACD and RSI rules *)

HistNow == LastRow["MACD_hist"]
HistPrev == PrevRow["MACD_hist"]
MACDDefined == notna(LastRow["MACD"]) /\ notna(HistNow) /\ notna(HistPrev)
BullishCross == Lt(HistPrev, Num(0)) /\ Ge(HistNow, Num(0))
BearishCross == Gt(HistPrev, Num(0)) /\ Le(HistNow, Num(0))

\* C19: with the MACD inputs defined, the MACD sub-signal votes +1 exactly
\* when the previous histogram is negative and the current one is >= 0, -1
\* exactly when the previous one is positive and the current one is <= 0,
\* and otherwise +0.5 when the current histogram is positive and -0.5 when
\* it is negative; it casts one vote.
C19_MACDRule ==
    (Fused /\ MACDDefined) =>
        /\ BullishCross <=> CastBy("MACD") = {Vote(1, 1)}
        /\ BearishCross <=> CastBy("MACD") = {Vote(-1, 1)}
        /\ (~BullishCross /\ ~BearishCross /\ Gt(HistNow, Num(0))) =>
              CastBy("MACD") = {Vote(1, 2)}
        /\ (~BullishCross /\ ~BearishCross /\ Lt(HistNow, Num(0))) =>
              CastBy("MACD") = {Vote(-1, 2)}
        /\ CountBy("MACD") = 1

\* a bullish cross onto a histogram of exactly 0
C19_Witness ==
    /\ Fused
    /\ MACDDefined
    /\ HistPrev = Num(-1)
    /\ HistNow = Num(0)
    /\ CastBy("MACD") = {Vote(1, 1)}

RSINow == LastRow["RSI"]
Overbought == Ge(RSINow, Num(rsi_overbought))
Oversold == Le(RSINow, Num(rsi_oversold))

\* C20: with RSI defined, the RSI sub-signal votes -1 exactly when
\* RSI >= 70, +1 exactly when RSI <= 30, and otherwise +0.5 when RSI is
\* above 50 and -0.5 when it is below 50; it casts one vote.
C20_RSIRule ==
    (Fused /\ notna(RSINow)) =>
        /\ Overbought <=> CastBy("RSI") = {Vote(-1, 1)}
        /\ Oversold <=> CastBy("RSI") = {Vote(1, 1)}
        /\ (~Overbought /\ ~Oversold /\ Gt(RSINow, Num(50))) => CastBy("RSI") = {Vote(1, 2)}
        /\ (~Overbought /\ ~Oversold /\ Lt(RSINow, Num(50))) => CastBy("RSI") = {Vote(-1, 2)}
        /\ CountBy("RSI") = 1

\* RSI exactly on the overbought threshold
C20_Witness ==
    /\ Fused
    /\ RSINow = Num(rsi_overbought)
    /\ CastBy("RSI") = {Vote(-1, 1)}

----------------------------------------------------------------------------
(* Properties of the ADX rule *)

ADXNow == LastRow["ADX"]
StrongTrend == Ge(ADXNow, Num(adx_strong))
DIUp == Gt(LastRow["DI_pos"], LastRow["DI_neg"])
DIDown == Lt(LastRow["DI_pos"], LastRow["DI_neg"])

\* C21: with ADX defined, the ADX/DI sub-signal votes 0 exactly when ADX is
\* below the strong-trend threshold; with ADX at or above it, it votes +0.8
\* exactly when DI+ > DI- and -0.8 exactly when DI+ < DI-.
C21_ADXRule ==
    (Fused /\ notna(ADXNow)) =>
        /\ Lt(ADXNow, Num(adx_strong)) <=> CastBy("ADX") = {0}
        /\ StrongTrend =>
              /\ DIUp <=> CastBy("ADX") = {Vote(8, 10)}
              /\ DIDown <=> CastBy("ADX") = {Vote(-8, 10)}

----------------------------------------------------------------------------
(* The range of votes and score *)

Voting == {"MA", "MA_cross", "RSI", "MACD", "ADX", "BOLL", "ROC", "Momentum", "OBV", "MFI"}

\* C22: every vote generate_signals appends lies in [-1, 1] (votes in
\* sixtieths) and the returned score lies in [-1, 1] (in thousandths); the
\* VROC and volume-versus-average checks set detail entries and append no
\* vote, so every vote comes from one of the ten voting sub-signals.
C22_VotesAndScoreInRange ==
    /\ \A i \in 1..Len(votes) : votes[i] >= -VoteScale /\ votes[i] <= VoteScale
    /\ Returned => (result.score >= -1000 /\ result.score <= 1000)
    /\ Len(voters) = Len(votes)
    /\ \A i \in 1..Len(voters) : voters[i] \in Voting

\* the only vote is +1, so the score is 1, while the VROC and the
\* volume-average checks each left their detail entry
C22_Witness ==
    /\ Fused
    /\ votes = <<VoteScale>>
    /\ result.score = 1000
    /\ {"VROC", "VOL_MA5"} \subseteq DOMAIN result.details

----------------------------------------------------------------------------
(* The exponentially smoothed columns (indicators.py _macd, _adx, _rsi) on *)
(* short series, in exact rationals: a cell Ratio(n, d) is kept in lowest  *)
(* terms with d > 0.                                                       *)

macd_fast == 12
macd_slow == 26
macd_signal == 9
adx_period == 14

RECURSIVE GCD(_, _)
GCD(a, b) == IF b = 0 THEN a ELSE GCD(b, a % b)

Den(c) == IF "d" \in DOMAIN c THEN c.d ELSE 1
Q(n, d) ==
    LET g == GCD(Abs(n), d) IN Ratio(n \div g, d \div g)

QAdd(a, b) ==
    IF ~notna(a) \/ ~notna(b) THEN NaN
    ELSE LET g == GCD(Den(a), Den(b))
         IN  Q(a.v * (Den(b) \div g) + b.v * (Den(a) \div g), (Den(a) \div g) * Den(b))
QNeg(a) == IF ~notna(a) THEN NaN ELSE Ratio(-a.v, Den(a))
QSub(a, b) == QAdd(a, QNeg(b))
QAbs(a) == IF ~notna(a) THEN NaN ELSE Ratio(Abs(a.v), Den(a))
QMul(a, b) ==
    IF ~notna(a) \/ ~notna(b) THEN NaN
    ELSE LET g1 == GCD(Abs(a.v), Den(b))
             g2 == GCD(Abs(b.v), Den(a))
         IN  Q((a.v \div g1) * (b.v \div g2), (Den(a) \div g2) * (Den(b) \div g1))
\* a / b as numpy divides: x / 0 is an infinity, 0 / 0 is NaN
QDiv(a, b) ==
    IF ~notna(a) \/ ~notna(b) THEN NaN
    ELSE IF b.v = 0 THEN (IF a.v = 0 THEN NaN ELSE IF a.v > 0 THEN PosInf ELSE NegInf)
    ELSE IF b.v > 0 THEN QMul(a, Ratio(Den(b), b.v))
    ELSE QMul(a, Ratio(-Den(b), -b.v))

\* x.ewm(span=span, adjust=False).mean() up to row t, as pandas computes
\* it: the running average w, the weight old of the past and the number of
\* observations so far.  A leading NaN leaves the average undefined, a
\* later NaN keeps it and ages the past; min_periods is left at its
\* default, so one observation is enough.
RECURSIVE EwmState(_, _, _)
EwmState(x, span, t) ==
    IF t = 1 THEN [w |-> x[1], old |-> Ratio(1, 1), nobs |-> IF notna(x[1]) THEN 1 ELSE 0]
    ELSE LET before == EwmState(x, span, t - 1)
             cur    == x[t]
             alpha  == Q(2, span + 1)
             nobs   == before.nobs + (IF notna(cur) THEN 1 ELSE 0)
         IN  IF notna(before.w)
             THEN LET aged == QMul(before.old, QSub(Ratio(1, 1), alpha))
                  IN  IF notna(cur)
                      THEN [w |-> QDiv(QAdd(QMul(aged, before.w), QMul(alpha, cur)),
                                       QAdd(aged, alpha)),
                            old |-> Ratio(1, 1), nobs |-> nobs]
                      ELSE [w |-> before.w, old |-> aged, nobs |-> nobs]
             ELSE [w |-> cur, old |-> before.old, nobs |-> nobs]

\* the same with min_periods observations required
ewm_min(x, span, min_periods, t) ==
    LET st == EwmState(x, span, t)
    IN  IF st.nobs >= (IF min_periods > 1 THEN min_periods ELSE 1) THEN st.w ELSE NaN

\* indicators.py:73-74, 76, 99-101, 104: no min_periods is given
ewm(x, span, t) == ewm_min(x, span, 0, t)

CloseCells(b) == [t \in 1..Len(b) |-> Num(b[t].close)]

\* indicators.py:73-77
macd_line(b, t) == QSub(ewm(CloseCells(b), macd_fast, t), ewm(CloseCells(b), macd_slow, t))
macd_signal_line(b, t) == ewm([i \in 1..Len(b) |-> macd_line(b, i)], macd_signal, t)
macd_hist(b, t) == QSub(macd_line(b, t), macd_signal_line(b, t))

Max2(x, y) == IF x >= y THEN x ELSE y

\* indicators.py:87-91: the row maximum skips the undefined entries of the
\* first row
tr(b, t) ==
    IF t <= 1 THEN Num(b[t].high - b[t].low)
    ELSE Num(Max2(b[t].high - b[t].low,
                  Max2(Abs(b[t].high - b[t - 1].close), Abs(b[t].low - b[t - 1].close))))

\* indicators.py:99-102
atr(b, t) == ewm([i \in 1..Len(b) |-> tr(b, i)], adx_period, t)
di_pos(b, t) ==
    QDiv(QMul(Num(100), ewm([i \in 1..Len(b) |-> dm_plus(b, i)], adx_period, t)), atr(b, t))
di_neg(b, t) ==
    QDiv(QMul(Num(100), ewm([i \in 1..Len(b) |-> dm_minus(b, i)], adx_period, t)), atr(b, t))
dx(b, t) ==
    LET total == QAdd(di_pos(b, t), di_neg(b, t))
    IN  IF notna(total) /\ total.v = 0 THEN NaN
        ELSE QDiv(QMul(Num(100), QAbs(QSub(di_pos(b, t), di_neg(b, t)))), total)

\* indicators.py:104
adx(b, t) == ewm([i \in 1..Len(b) |-> dx(b, i)], adx_period, t)

SmoothedCols == {"RSI", "MACD", "MACD_signal", "MACD_hist", "DI_pos", "DI_neg", "ADX"}

smoothed(b) ==
    [t \in 1..Len(b) |->
        [c \in SmoothedCols |->
            CASE c = "RSI" -> rsi(b, t)
              [] c = "MACD" -> macd_line(b, t)
              [] c = "MACD_signal" -> macd_signal_line(b, t)
              [] c = "MACD_hist" -> macd_hist(b, t)
              [] c = "DI_pos" -> di_pos(b, t)
              [] c = "DI_neg" -> di_neg(b, t)
              [] c = "ADX" -> adx(b, t)]]

\* the series: every series of 1 to MaxSmooth bars over the three price
\* levels
MaxSmooth == 2
SmoothSeries == UNION {[1..n -> ShortBars] : n \in 1..MaxSmooth}

InitSmooth ==
    /\ bars \in SmoothSeries
    /\ ind = Pending
    /\ df = <<>>
    /\ InitOther
    /\ call = [op |-> "smoothed"]
    /\ pc = 0

ComputeSmoothed ==
    /\ ind = Pending
    /\ ind' = [rows |-> smoothed(bars)]
    /\ UNCHANGED <<df, votes, voters, reads, result, outcome, bars, call, pc, disk>>

NextSmooth == ComputeSmoothed

SpecSmooth == InitSmooth /\ [][NextSmooth]_vars

\* the span or period a smoothed column is configured with
WarmUp(c) ==
    CASE c = "RSI" -> rsi_period
      [] c = "MACD" -> macd_fast
      [] c = "MACD_signal" -> macd_signal
      [] c = "MACD_hist" -> macd_signal
      [] c \in {"DI_pos", "DI_neg", "ADX"} -> adx_period

\* C23: every exponentially smoothed column is undefined on every row that
\* has fewer bars up to and including it than the column's span or period
\* (row t of the model has t bars).
C23_SmoothedWarmUp ==
    Computed =>
        \A t \in 1..Len(bars) : \A c \in SmoothedCols :
            t < WarmUp(c) => ~notna(ind.rows[t][c])

----------------------------------------------------------------------------
(* compute_all on bars over four price levels, where a bar can exceed the  *)
(* previous bar on both sides by different amounts.                        *)

WideLevels == BarLevels \cup {13}
WideBars ==
    {x \in [high : WideLevels, low : WideLevels, close : WideLevels, volume : {100}] :
        x.low <= x.high /\ x.close \in {x.low, x.high}}
WideSeries == [1..2 -> WideBars] \cup [1..3 -> WideBars]

InitWide ==
    /\ bars \in WideSeries
    /\ ind = Pending
    /\ df = <<>>
    /\ InitOther
    /\ call \in {[op |-> "compute_all", bars |-> bars, date |-> d] : d \in Dates(Len(bars))}
    /\ pc = 0

SpecWide == InitWide /\ [][NextInd]_vars

\* C24: after the mutual-exclusion step at most one of the filtered +DM and
\* -DM of a bar is non-zero: the +DM is zero when it is smaller than the
\* bar's -DM, and the -DM is zero when it is smaller than the bar's +DM.
C24_AtMostOneMovement ==
    Computed =>
        \A t \in 1..Len(bars) :
            /\ ind.dm_plus[t] = Num(0) \/ ind.dm_minus[t] = Num(0)
            /\ RawPlus(t) < RawMinus(t) => ind.dm_plus[t] = Num(0)
            /\ RawMinus(t) < RawPlus(t) => ind.dm_minus[t] = Num(0)

----------------------------------------------------------------------------
(* data/storage.py: the price database.  A string is a sequence of         *)
(* characters.  The database is a set of tables, a table its name as       *)
(* created and its rows, a row a date text (the primary key) and a bar;    *)
(* SQLite finds a table by its name without regard to the case of ASCII    *)
(* letters.  A date is a day of one month, its text the two digits of the  *)
(* ISO form (the year and month before them are the same for every row).   *)

Upper(c) == CASE c = "b" -> "B" [] c = "c" -> "C" [] OTHER -> c
Fold(name) == [i \in DOMAIN name |-> Upper(name[i])]

\* storage.py:80-81
_table_name(symbol, market) == market \o <<"_">> \o symbol

\* storage.py:24: df["date"].astype(str), per value
DateText(d) == <<d \div 10, d % 10>>
\* storage.py:60: pd.to_datetime
ToDatetime(text) == 10 * text[1] + text[2]

\* the order of TEXT values: the first differing character decides, a
\* prefix comes first
RECURSIVE TextLess(_, _)
TextLess(a, b) ==
    IF b = <<>> THEN FALSE
    ELSE IF a = <<>> THEN TRUE
    ELSE IF Head(a) # Head(b) THEN Head(a) < Head(b)
    ELSE TextLess(Tail(a), Tail(b))

NoTables == {}
FindTable(tables, name) == {t \in tables : Fold(t.name) = Fold(name)}

\* storage.py:30-39: CREATE TABLE IF NOT EXISTS
CreateIfNotExists(tables, name) ==
    IF FindTable(tables, name) # {} THEN tables
    ELSE tables \cup {[name |-> name, rows |-> {}]}

\* storage.py:41-44: INSERT OR REPLACE of one record under the primary key
InsertOrReplace(rows, rec) == {r \in rows : r.date # rec.date} \cup {rec}

RECURSIVE ExecuteMany(_, _)
ExecuteMany(rows, records) ==
    IF records = <<>> THEN rows
    ELSE ExecuteMany(InsertOrReplace(rows, Head(records)), Tail(records))

\* storage.py:17-44
save_price_data(tables, symbol, market, frame) ==
    IF frame = <<>> THEN tables
    ELSE LET table   == _table_name(symbol, market)
             records == [i \in 1..Len(frame) |->
                            [date |-> DateText(frame[i].date), bar |-> frame[i].bar]]
             created == CreateIfNotExists(tables, table)
             target  == CHOOSE t \in FindTable(created, table) : TRUE
         IN  (created \ {target})
                 \cup {[name |-> target.name, rows |-> ExecuteMany(target.rows, records)]}

\* ORDER BY date ASC
RECURSIVE OrderByDate(_)
OrderByDate(rows) ==
    IF rows = {} THEN <<>>
    ELSE LET first == CHOOSE r \in rows : \A o \in rows \ {r} : TextLess(r.date, o.date)
         IN  <<first>> \o OrderByDate(rows \ {first})

\* storage.py:47-61: the table is looked up in the list of names as they
\* were created, then read in date order
load_price_data(tables, symbol, market) ==
    LET table    == _table_name(symbol, market)
        existing == {t.name : t \in tables}
    IN  IF table \notin existing THEN <<>>
        ELSE LET read == OrderByDate((CHOOSE t \in FindTable(tables, table) : TRUE).rows)
             IN  [i \in 1..Len(read) |-> [date |-> ToDatetime(read[i].date), bar |-> read[i].bar]]

\* the instruments: markets of the fetcher, a symbol in upper case as the
\* menu and the web form make it, and the same symbol in lower case as a
\* watchlist file may hold it (the fetcher upper-cases it for the US market)
StoragePairs ==
    {[symbol |-> <<"B">>, market |-> <<"A">>],
     [symbol |-> <<"B">>, market |-> <<"U", "S">>],
     [symbol |-> <<"b">>, market |-> <<"U", "S">>]}
Days == {9, 10}
BarValues == {1, 2}
SavedBars == [date : Days, bar : BarValues]
SaveFrames == {<<>>} \cup [1..1 -> SavedBars] \cup [1..2 -> SavedBars]

\* what has been saved so far for one instrument: the bar last saved for
\* each date (0: none), and whether a save has replaced a bar by another
NothingSaved == [last |-> [d \in Days |-> 0], replaced |-> FALSE]
RECURSIVE Record(_, _)
Record(saved, frame) ==
    IF frame = <<>> THEN saved
    ELSE LET row == Head(frame)
         IN  Record([last |-> [saved.last EXCEPT ![row.date] = row.bar],
                     replaced |-> saved.replaced
                                    \/ saved.last[row.date] \notin {0, row.bar}],
                    Tail(frame))

InitStorage ==
    /\ disk = [kind |-> "db", tables |-> NoTables]
    /\ call = [op |-> "storage", saved |-> [p \in StoragePairs |-> NothingSaved]]
    /\ pc = 0
    /\ df = <<>>
    /\ InitIdle
    /\ InitInd

SavePriceData ==
    /\ call.op = "storage"
    /\ outcome = "pending"
    /\ \E p \in StoragePairs, frame \in SaveFrames :
         /\ disk' = [disk EXCEPT !.tables = save_price_data(@, p.symbol, p.market, frame)]
         /\ call' = [call EXCEPT !.saved[p] = Record(@, frame)]
    /\ UNCHANGED <<df, votes, voters, reads, result, outcome, bars, ind, pc>>

LoadPriceData ==
    /\ call.op = "storage"
    /\ outcome = "pending"
    /\ \E p \in StoragePairs :
         result' = [pair |-> p, frame |-> load_price_data(disk.tables, p.symbol, p.market)]
    /\ outcome' = "returned"
    /\ UNCHANGED <<df, votes, voters, reads, bars, ind, call, pc, disk>>

NextStorage == SavePriceData \/ LoadPriceData

SpecStorage == InitStorage /\ [][NextStorage]_vars

Loaded == call.op = "storage" /\ outcome = "returned"

\* C25: after any sequence of saves, load_price_data for an instrument
\* returns exactly one bar per date ever saved for it, in strictly
\* ascending date order, each with the values of the last save of its
\* date; what was saved for other instruments neither shows nor changes it.
C25_LoadReturnsLatestPerDate ==
    Loaded =>
        LET frame == result.frame
            last  == call.saved[result.pair].last
        IN  /\ \A i, j \in 1..Len(frame) : i < j => frame[i].date < frame[j].date
            /\ {frame[i].date : i \in 1..Len(frame)} = {d \in Days : last[d] # 0}
            /\ \A i \in 1..Len(frame) : frame[i].bar = last[frame[i].date]

----------------------------------------------------------------------------
(* Properties of check_anomaly: the record and the news lookup *)

Lookups == {i \in 1..Len(result.trace) : result.trace[i] = "fetch_news"}

\* C26: every record check_anomaly returns has a defined change_pct of
\* magnitude at least the threshold (change_pct in hundredths of a percent,
\* the threshold in hundredths); with an undefined last close the result is
\* absent.
C26_RecordHasDefinedChange ==
    Checked =>
        /\ Flagged =>
              /\ notna(result.value.change_pct)
              /\ \/ result.value.change_pct.k = "inf"
                 \/ Abs(result.value.change_pct.v) >= call.threshold * ThresholdScale
        /\ (HasTwoBars /\ ~notna(LastClose)) => Absent

\* C27: fetch_news is invoked exactly once when a record is returned, after
\* the threshold test has passed, and never when the result is absent.
C27_OneLookupPerRecord ==
    Checked =>
        /\ Flagged => result.trace = <<"threshold_passed", "fetch_news">>
        /\ Absent => Lookups = {}

\* a record returned after one lookup
C27_Witness ==
    /\ Checked
    /\ Flagged
    /\ LastClose = Num(106)
    /\ PrevClose = Num(100)
    /\ Cardinality(Lookups) = 1

----------------------------------------------------------------------------
(* The watchlist file and its two editors: menu.py manage_watchlist and    *)
(* the web route watchlist.  The file holds a sequence of entries          *)
(* [symbol, name, market]; each operation loads it, edits the loaded list  *)
(* and saves it.  symbol.upper() is Upper on one-letter symbols, "" is the *)
(* empty input.  A typed number is [kind |-> "int", v |-> k], any other    *)
(* text [kind |-> "text"].                                                 *)

Typed(k) == [kind |-> "int", v |-> k]
NotANumber == [kind |-> "text", v |-> 0]

\* list.pop(i): a negative index counts from the end, an index outside the
\* list raises IndexError
Pop(wl, i) ==
    LET n == Len(wl)
        j == IF i < 0 THEN i + n ELSE i
    IN  IF j < 0 \/ j >= n THEN Raise("IndexError")
        ELSE Return([removed |-> wl[j + 1],
                     rest |-> [x \in 1..(n - 1) |-> IF x <= j THEN wl[x] ELSE wl[x + 1]]])

\* int(text)
ToInt(text) == IF text.kind = "int" THEN Return(text.v) ELSE Raise("ValueError")

\* the test with the name compared as well: stands in for a mutation of
\* Listed
Listed_NameToo(wl, symbol, name, market) ==
    \E i \in 1..Len(wl) :
        wl[i].symbol = symbol /\ wl[i].market = market /\ wl[i].name = name

\* menu.py:246, web.py:559: any(s["symbol"] == symbol and s["market"] == market for s in wl)
Listed(wl, symbol, name, market) ==
    \E i \in 1..Len(wl) : wl[i].symbol = symbol /\ wl[i].market = market

\* what an operation leaves: the file, whether it was saved, the message
\* shown ("" for none) and whether an exception left the operation
Edited(file, saved, message) ==
    [file |-> file, saved |-> saved, message |-> message, raised |-> FALSE]

\* menu.py:238-253, the market already one of US, HK, A
menu_add(wl, typed_symbol, typed_name, market) ==
    LET symbol == Upper(typed_symbol)
        name   == IF typed_name = "" THEN symbol ELSE typed_name
    IN  IF symbol = "" THEN Edited(wl, FALSE, "")
        ELSE IF Listed(wl, symbol, name, market) THEN Edited(wl, FALSE, "already_listed")
        ELSE Edited(Append(wl, [symbol |-> symbol, name |-> name, market |-> market]),
                    TRUE, "added")

\* menu.py:255-264
menu_delete(wl, typed) ==
    LET k == ToInt(typed)
    IN  IF k.raised THEN Edited(wl, FALSE, "invalid_number")
        ELSE LET popped == Pop(wl, k.value - 1)
             IN  IF popped.raised THEN Edited(wl, FALSE, "invalid_number")
                 ELSE Edited(popped.value.rest, TRUE, "deleted")

\* web.py:555-565
web_add(wl, typed_symbol, typed_name, market) ==
    LET sym == Upper(typed_symbol)
    IN  IF sym = "" THEN Edited(wl, FALSE, "")
        ELSE IF Listed(wl, sym, typed_name, market) THEN Edited(wl, FALSE, "already_listed")
        ELSE Edited(Append(wl, [symbol |-> sym,
                                name |-> IF typed_name = "" THEN sym ELSE typed_name,
                                market |-> market]),
                    TRUE, "added")

\* web.py:566-571: int() of the form field is outside any try
web_delete(wl, typed) ==
    LET idx == ToInt(typed)
    IN  IF idx.raised
        THEN [file |-> wl, saved |-> FALSE, message |-> "", raised |-> TRUE]
        ELSE IF 0 <= idx.value /\ idx.value < Len(wl)
        THEN Edited(Pop(wl, idx.value).value.rest, TRUE, "deleted")
        ELSE Edited(wl, FALSE, "")

TypedSymbols == {"", "b", "B", "C"}
TypedNames == {"", "n"}
ListMarkets == {"US", "HK"}
TypedNumbers == {Typed(k) : k \in (-2)..(MaxWatch + 1)} \cup {NotANumber}

NoTwoAlike(wl) ==
    \A i, j \in 1..Len(wl) :
        (wl[i].symbol = wl[j].symbol /\ wl[i].market = wl[j].market) => i = j

\* the starting watchlists: at most two entries, no two with the same
\* symbol and market
StartLists ==
    {wl \in UNION {[1..n -> [symbol : {"B", "C"}, name : {"n"}, market : ListMarkets]] :
                      n \in 0..2} : NoTwoAlike(wl)}

InitWatchlist ==
    /\ disk \in {[kind |-> "watchlist", file |-> wl] : wl \in StartLists}
    /\ call = [op |-> "watchlist"]
    /\ pc = 0
    /\ df = <<>>
    /\ InitIdle
    /\ InitInd

\* one operation on the file: it is loaded, edited and, where the code
\* says so, saved
Edit(op, before, edited, input) ==
    /\ disk' = [disk EXCEPT !.file = edited.file]
    /\ call' = [op |-> op, before |-> before, input |-> input]
    /\ result' = edited
    /\ outcome' = IF edited.raised THEN "raised" ELSE "returned"
    /\ UNCHANGED <<df, votes, voters, reads, bars, ind, pc>>

MenuAdd ==
    /\ disk.kind = "watchlist"
    /\ Len(disk.file) < MaxWatch
    /\ \E s \in TypedSymbols, n \in TypedNames, m \in ListMarkets :
         Edit("menu_add", disk.file, menu_add(disk.file, s, n, m),
              [symbol |-> s, name |-> n, market |-> m])

MenuDelete ==
    /\ disk.kind = "watchlist"
    /\ \E k \in TypedNumbers :
         Edit("menu_delete", disk.file, menu_delete(disk.file, k), k)

WebAdd ==
    /\ disk.kind = "watchlist"
    /\ Len(disk.file) < MaxWatch
    /\ \E s \in TypedSymbols, n \in TypedNames, m \in ListMarkets :
         Edit("web_add", disk.file, web_add(disk.file, s, n, m),
              [symbol |-> s, name |-> n, market |-> m])

WebDelete ==
    /\ disk.kind = "watchlist"
    /\ \E k \in TypedNumbers :
         Edit("web_delete", disk.file, web_delete(disk.file, k), k)

NextWatchlist == MenuAdd \/ MenuDelete \/ WebAdd \/ WebDelete

SpecWatchlist == InitWatchlist /\ [][NextWatchlist]_vars

\* the list without its k-th entry, k counted from 1
Without(wl, k) == [x \in 1..(Len(wl) - 1) |-> IF x < k THEN wl[x] ELSE wl[x + 1]]

\* C28: the menu's delete removes an entry and saves only when the number
\* k entered satisfies 1 <= k <= len(watchlist), and then removes the
\* entry shown as number k; for every other input the watchlist is left
\* unchanged and the invalid-number message is shown.
C28_DeleteOnlyValidNumber ==
    call.op = "menu_delete" =>
        LET k     == call.input
            valid == k.kind = "int" /\ 1 <= k.v /\ k.v <= Len(call.before)
        IN  /\ valid => /\ disk.file = Without(call.before, k.v)
                        /\ result.saved
            /\ ~valid => /\ disk.file = call.before
                         /\ ~result.saved
                         /\ result.message = "invalid_number"

AddedPair == [symbol |-> Upper(call.input.symbol), market |-> call.input.market]

\* C29: from a watchlist without two entries of the same symbol and market,
\* after any sequence of adds and deletes through the web route and the
\* menu, the saved watchlist has no two such entries; an add of a pair the
\* watchlist holds leaves it unchanged.
C29_NoTwoAlike ==
    disk.kind = "watchlist" =>
        /\ NoTwoAlike(disk.file)
        /\ (call.op \in {"menu_add", "web_add"}
              /\ \E i \in 1..Len(call.before) :
                   /\ call.before[i].symbol = AddedPair.symbol
                   /\ call.before[i].market = AddedPair.market)
           => (disk.file = call.before /\ ~result.saved)

\* the web form adds, in lower case and under another name, a pair the
\* watchlist holds
C29_Witness ==
    /\ call.op = "web_add"
    /\ call.input = [symbol |-> "b", name |-> "", market |-> "US"]
    /\ \E i \in 1..Len(call.before) :
         call.before[i] = [symbol |-> "B", name |-> "n", market |-> "US"]
    /\ Len(call.before) = 2
    /\ disk.file = call.before

----------------------------------------------------------------------------
(* report/generator.py save_report over the reports directory.  The clock  *)
(* is [minute, half]: two instants of one minute differ in half only.  The *)
(* directory maps a file name to the text last written under it.           *)

MaxMinute == 1
MaxSaves == 3

Instants == [minute : 0..MaxMinute, half : {0, 1}]
Later(a, b) == a.minute < b.minute \/ (a.minute = b.minute /\ a.half < b.half)

\* generator.py:59: datetime.now().strftime("report_%Y%m%d_%H%M.txt")
strftime(now) == <<"report", now.minute>>

\* generator.py:61-62: open(path, "w") and write: the text replaces what the
\* file held
Write(files, path, text) ==
    [f \in DOMAIN files \cup {path} |-> IF f = path THEN text ELSE files[f]]

\* generator.py:56-63
save_report(files, now, text) ==
    LET path == strftime(now)
    IN  [files |-> Write(files, path, text), path |-> path]

ReportTexts == {"report_1", "report_2"}

InitReports ==
    /\ disk = [kind |-> "reports", files |-> <<>>, now |-> [minute |-> 0, half |-> 0]]
    /\ call = [op |-> "save_report", saved |-> <<>>]
    /\ pc = 0
    /\ df = <<>>
    /\ InitIdle
    /\ InitInd

\* main.py:44-48, menu.py:145, web.py:396: one call of save_report; the
\* calls made so far are kept in call.saved
SaveReport ==
    /\ disk.kind = "reports"
    /\ Len(call.saved) < MaxSaves
    /\ \E text \in ReportTexts :
         LET saved == save_report(disk.files, disk.now, text)
         IN  /\ disk' = [disk EXCEPT !.files = saved.files]
             /\ call' = [call EXCEPT !.saved = Append(@, [path |-> saved.path, text |-> text])]
             /\ result' = [path |-> saved.path]
             /\ outcome' = "returned"
    /\ UNCHANGED <<df, votes, voters, reads, bars, ind, pc>>

\* time passes between two calls
Tick ==
    /\ disk.kind = "reports"
    /\ \E later \in Instants :
         /\ Later(disk.now, later)
         /\ disk' = [disk EXCEPT !.now = later]
    /\ UNCHANGED <<df, votes, voters, reads, result, outcome, bars, ind, call, pc>>

NextReports == SaveReport \/ Tick

SpecReports == InitReports /\ [][NextReports]_vars

\* C30: after any sequence of save_report calls, each report saved so far
\* is still readable under the path its call returned, with the text that
\* call was given, also when two calls fall within one clock minute.
C30_SavedReportsKept ==
    disk.kind = "reports" =>
        \A i \in 1..Len(call.saved) :
            /\ call.saved[i].path \in DOMAIN disk.files
            /\ disk.files[call.saved[i].path] = call.saved[i].text

====
